---- MODULE Spec2Model ----
(***************************************************************************)
(* Explore Service: decisions between users, keyset-paginated listings of  *)
(* likers, and the cache-aside orchestration of the core layer.            *)
(*                                                                         *)
(* User ids are modelled as naturals; 0 stands for the empty string.       *)
(* created_at is kept in clock ticks (TicksPerSecond ticks per second);    *)
(* the queries expose it as EXTRACT(EPOCH FROM created_at)::bigint.        *)
(***************************************************************************)
EXTENDS Integers, Sequences, FiniteSets, Bags, TLC

VARIABLES decisions, now, cache, tasks, rq, puts, reads, trav, warned, cacheProvider

vars == <<decisions, now, cache, tasks, rq, puts, reads, trav, warned, cacheProvider>>

----------------------------------------------------------------------------
(* Bounds of the model *)

NumUsers == 3
NumProcs == 2
MaxTime == 3
MaxRequests == 3
MaxPuts == 2
MaxReads == 1
MaxTokenLimit == 1
TicksPerSecond == 2
MaxLikers == 22

(* The literal page size used when no usable cursor limit is supplied *)
DefaultLimit == 20

EmptyId == 0
Users == 1..NumUsers
Procs == 1..NumProcs

(* the concurrent specification runs every process on one pair of users *)
PairUsers == 1..(NumUsers - 1)

----------------------------------------------------------------------------
(* utils: cursor codec *)

EmptyToken == [kind |-> "empty", fields |-> <<>>]
NotBase64Token == [kind |-> "notbase64", fields |-> <<>>]
NotJsonToken == [kind |-> "notjson", fields |-> <<>>]
EmptyObjectToken == [kind |-> "object", fields |-> <<>>]

NilCursor == [nil |-> TRUE, LastCreatedAt |-> 0, Limit |-> 0]

Cursor(last, limit) == [nil |-> FALSE, LastCreatedAt |-> last, Limit |-> limit]

(* variant: the Limit member is left out of the object *)
Encode_LimitOmitted(c) ==
    [kind |-> "object", fields |-> << <<"LastCreatedAt", c.LastCreatedAt>> >>]

(* json.Marshal of the struct followed by base64.URLEncoding *)
Encode(c) ==
    [kind |-> "object",
     fields |-> << <<"LastCreatedAt", c.LastCreatedAt>>, <<"Limit", c.Limit>> >>]

(* value of a JSON member, zero value when the member is absent *)
JsonField(fields, name) ==
    IF \E i \in 1..Len(fields) : fields[i][1] = name
    THEN LET i == CHOOSE j \in 1..Len(fields) :
                    /\ fields[j][1] = name
                    /\ \A k \in (j+1)..Len(fields) : fields[k][1] # name
         IN fields[i][2]
    ELSE 0

(* variant: bytes that are not JSON decode to the zero cursor *)
DecodeCursor_NotJsonIsZero(encodedCursor) ==
    IF encodedCursor.kind = "empty"
    THEN [err |-> FALSE, cursor |-> NilCursor]
    ELSE IF encodedCursor.kind = "notbase64"
    THEN [err |-> TRUE, cursor |-> NilCursor]
    ELSE [err |-> FALSE,
          cursor |-> Cursor(JsonField(encodedCursor.fields, "LastCreatedAt"),
                            JsonField(encodedCursor.fields, "Limit"))]

(* DecodeCursor: [err, cursor] *)
DecodeCursor(encodedCursor) ==
    IF encodedCursor.kind = "empty"
    THEN [err |-> FALSE, cursor |-> NilCursor]
    ELSE IF encodedCursor.kind = "notbase64"
    THEN [err |-> TRUE, cursor |-> NilCursor]
    ELSE IF encodedCursor.kind = "notjson"
    THEN [err |-> TRUE, cursor |-> NilCursor]
    ELSE [err |-> FALSE,
          cursor |-> Cursor(JsonField(encodedCursor.fields, "LastCreatedAt"),
                            JsonField(encodedCursor.fields, "Limit"))]

(* utils: cache keys and TTLs (seconds) *)

LikersTTL == 30
NewLikersTTL == 20
LikersCountTTL == 15

(* Identifiers and tokens are strings, and a key is the text Sprintf makes
   of them.  A text is the sequence of its pieces: the colon, and pieces
   without a colon.  The users 1..NumUsers have one-piece names; ColonUser is
   a user whose identifier holds a colon, ColonToken a token that does. *)
Colon == ":"

ColonUser == NumUsers + 1

ColonToken == [kind |-> "notbase64", fields |-> << "x", Colon >>]

UserText(u) ==
    IF u = EmptyId THEN <<>>
    ELSE IF u = ColonUser THEN << ToString(1), Colon, "x" >>
    ELSE << ToString(u) >>

TokenText(token) ==
    IF token = EmptyToken THEN <<>>
    ELSE IF token.kind = "notbase64" /\ token.fields # <<>> THEN token.fields
    ELSE << ToString(token) >>

(* fmt.Sprintf("likers:%s:%s", recipient, token): op is the text before the
   first colon, text what follows it *)
LikersKey(recipient, token) ==
    [op |-> "likers", text |-> UserText(recipient) \o << Colon >> \o TokenText(token)]
NewLikersKey(recipient, token) ==
    [op |-> "newlikers", text |-> UserText(recipient) \o << Colon >> \o TokenText(token)]
LikersCountKey(recipient) ==
    [op |-> "likerscount", text |-> UserText(recipient)]

NoKey == [op |-> "none", text |-> <<>>]

----------------------------------------------------------------------------
(* decisions relation and its queries *)

(* EXTRACT(EPOCH FROM created_at)::bigint, the cast rounding to nearest *)
EpochSeconds(t) == (2 * t + TicksPerSecond) \div (2 * TicksPerSecond)

MaxSeconds == EpochSeconds(MaxTime)

Liker(row) == [ActorID |-> row.actor_user_id, Timestamp |-> EpochSeconds(row.created_at)]

RECURSIVE Perms(_)
Perms(S) ==
    IF S = {} THEN { <<>> }
    ELSE UNION { { <<x>> \o s : s \in Perms(S \ {x}) } : x \in S }

(* every order in which ORDER BY created_at DESC may deliver the rows *)
RECURSIVE OrderByCreatedAtDesc(_)
OrderByCreatedAtDesc(rows) ==
    IF rows = {} THEN { <<>> }
    ELSE LET top == { r \in rows : \A q \in rows : q.created_at <= r.created_at }
         IN { h \o t : h \in Perms(top), t \in OrderByCreatedAtDesc(rows \ top) }

SqlLimit(s, n) == IF Len(s) <= n THEN s ELSE SubSeq(s, 1, n)

MapLikers(s) == [i \in 1..Len(s) |-> Liker(s[i])]

(* the cursor the queries run with: a nil cursor or a non-positive limit is
   replaced by a fresh cursor that only carries the default limit *)
EffectiveCursor(cursor) ==
    IF cursor.nil \/ cursor.Limit <= 0 THEN Cursor(0, DefaultLimit) ELSE cursor

(* variant: the cursor is minted from the row that is dropped *)
PageOf_DroppedRowCursor(likers, cursor) ==
    IF Len(likers) > cursor.Limit
    THEN [err |-> "none",
          likers |-> SubSeq(likers, 1, cursor.Limit),
          next |-> Encode(Cursor(likers[cursor.Limit + 1].Timestamp, cursor.Limit))]
    ELSE [err |-> "none", likers |-> likers, next |-> EmptyToken]

(* result of the page post-processing shared by both listings *)
PageOf(likers, cursor) ==
    IF Len(likers) > cursor.Limit
    THEN [err |-> "none",
          likers |-> SubSeq(likers, 1, cursor.Limit),
          next |-> Encode(Cursor(likers[cursor.Limit].Timestamp, cursor.Limit))]
    ELSE [err |-> "none", likers |-> likers, next |-> EmptyToken]

InvalidTokenResult == [err |-> "invalid paginationToken", likers |-> <<>>, next |-> EmptyToken]

(* variant: the created_at bound is applied without a token too *)
GetLikers_BoundAlways(db, recipientUserID, paginationToken) ==
    LET dec == DecodeCursor(paginationToken)
        cursor == EffectiveCursor(dec.cursor)
        matching == { d \in db :
                        /\ d.recipient_user_id = recipientUserID
                        /\ d.liked_recipient
                        /\ EpochSeconds(d.created_at) < cursor.LastCreatedAt }
    IN IF dec.err THEN { InvalidTokenResult }
       ELSE { PageOf(MapLikers(SqlLimit(o, cursor.Limit + 1)), cursor) :
                 o \in OrderByCreatedAtDesc(matching) }

(* variant: the query asks for Limit rows, not for one more *)
GetLikers_ExactFetch(db, recipientUserID, paginationToken) ==
    LET dec == DecodeCursor(paginationToken)
        cursor == EffectiveCursor(dec.cursor)
        matching == { d \in db :
                        /\ d.recipient_user_id = recipientUserID
                        /\ d.liked_recipient
                        /\ (paginationToken # EmptyToken =>
                               EpochSeconds(d.created_at) < cursor.LastCreatedAt) }
    IN IF dec.err THEN { InvalidTokenResult }
       ELSE { PageOf(MapLikers(SqlLimit(o, cursor.Limit)), cursor) :
                 o \in OrderByCreatedAtDesc(matching) }

(* explorerStore.GetLikers: the set of results the call may return on db *)
GetLikers(db, recipientUserID, paginationToken) ==
    LET dec == DecodeCursor(paginationToken)
        cursor == EffectiveCursor(dec.cursor)
        matching == { d \in db :
                        /\ d.recipient_user_id = recipientUserID
                        /\ d.liked_recipient
                        /\ (paginationToken # EmptyToken =>
                               EpochSeconds(d.created_at) < cursor.LastCreatedAt) }
    IN IF dec.err THEN { InvalidTokenResult }
       ELSE { PageOf(MapLikers(SqlLimit(o, cursor.Limit + 1)), cursor) :
                 o \in OrderByCreatedAtDesc(matching) }

(* explorerStore.GetNewLikers: LEFT JOIN decisions d2 ON d1.actor_user_id =
   d2.recipient_user_id WHERE d2.id IS NULL keeps d1 when no row at all has
   d1's actor as its recipient *)
GetNewLikers(db, recipientUserID, paginationToken) ==
    LET dec == DecodeCursor(paginationToken)
        cursor == EffectiveCursor(dec.cursor)
        matching == { d1 \in db :
                        /\ d1.recipient_user_id = recipientUserID
                        /\ d1.liked_recipient
                        /\ ~ \E d2 \in db : d1.actor_user_id = d2.recipient_user_id
                        /\ (paginationToken # EmptyToken =>
                               EpochSeconds(d1.created_at) < cursor.LastCreatedAt) }
    IN IF dec.err THEN { InvalidTokenResult }
       ELSE { PageOf(MapLikers(SqlLimit(o, cursor.Limit)), cursor) :
                 o \in OrderByCreatedAtDesc(matching) }

(* variant: the count without the liked_recipient condition *)
CountLikes_AllDecisions(db, recipientUserID) ==
    Cardinality({ d \in db : d.recipient_user_id = recipientUserID })

(* explorer.sql CountLikes *)
CountLikes(db, recipientUserID) ==
    Cardinality({ d \in db : d.recipient_user_id = recipientUserID /\ d.liked_recipient })

(* variant: the reverse row is looked up whatever its liked_recipient *)
HasMutualLike_AnyReverseRow(db, actorUserID, recipientUserID) ==
    /\ \E d \in db : /\ d.actor_user_id = actorUserID
                     /\ d.recipient_user_id = recipientUserID
                     /\ d.liked_recipient
    /\ \E d \in db : /\ d.actor_user_id = recipientUserID
                     /\ d.recipient_user_id = actorUserID

(* variant: the reverse like counts only when it is older than the actor's *)
HasMutualLike_ReverseOlder(db, actorUserID, recipientUserID) ==
    \E d \in db :
       /\ d.actor_user_id = actorUserID
       /\ d.recipient_user_id = recipientUserID
       /\ d.liked_recipient
       /\ \E e \in db : /\ e.actor_user_id = recipientUserID
                        /\ e.recipient_user_id = actorUserID
                        /\ e.liked_recipient
                        /\ e.created_at < d.created_at

(* explorer.sql HasMutualLike *)
HasMutualLike(db, actorUserID, recipientUserID) ==
    /\ \E d \in db : /\ d.actor_user_id = actorUserID
                     /\ d.recipient_user_id = recipientUserID
                     /\ d.liked_recipient
    /\ \E d \in db : /\ d.actor_user_id = recipientUserID
                     /\ d.recipient_user_id = actorUserID
                     /\ d.liked_recipient

(* variant: a plain INSERT, without the conflict clause or the constraint *)
UpsertDecision_InsertOnly(db, actorUserID, recipientUserID, liked, at) ==
    db \cup { [actor_user_id |-> actorUserID, recipient_user_id |-> recipientUserID,
               liked_recipient |-> liked, created_at |-> at] }

(* variant: ON CONFLICT DO NOTHING *)
UpsertDecision_FirstWins(db, actorUserID, recipientUserID, liked, at) ==
    IF \E d \in db : d.actor_user_id = actorUserID /\ d.recipient_user_id = recipientUserID
    THEN db
    ELSE db \cup { [actor_user_id |-> actorUserID, recipient_user_id |-> recipientUserID,
                    liked_recipient |-> liked, created_at |-> at] }

(* explorer.sql CreateDecision: INSERT ... ON CONFLICT (actor, recipient) DO UPDATE *)
UpsertDecision(db, actorUserID, recipientUserID, liked, at) ==
    { d \in db : ~ (d.actor_user_id = actorUserID /\ d.recipient_user_id = recipientUserID) }
    \cup { [actor_user_id |-> actorUserID, recipient_user_id |-> recipientUserID,
            liked_recipient |-> liked, created_at |-> at] }

----------------------------------------------------------------------------
(* responses, cache values, requests *)

NoResp == [present |-> FALSE, likers |-> <<>>, next |-> EmptyToken, count |-> 0,
           mutual_likes |-> FALSE]

ListResp(likers, nextToken) ==
    [present |-> TRUE,
     likers |-> [i \in 1..Len(likers) |->
                    [ActorId |-> likers[i].ActorID, UnixTimestamp |-> likers[i].Timestamp]],
     next |-> nextToken, count |-> 0, mutual_likes |-> FALSE]

CountResp(n) == [present |-> TRUE, likers |-> <<>>, next |-> EmptyToken, count |-> n,
                 mutual_likes |-> FALSE]

DecisionResp(m) == [present |-> TRUE, likers |-> <<>>, next |-> EmptyToken, count |-> 0,
                    mutual_likes |-> m]

(* stored strings: json.Marshal of a response, or strconv.FormatInt of a count *)
JsonValue(resp) == [fmt |-> "json", body |-> resp]
DecimalValue(n) == [fmt |-> "decimal", body |-> CountResp(n)]
MissingValue == [fmt |-> "missing", body |-> NoResp]

(* redisProvider.Get: the empty string when the key does not exist *)
Get(c, key) == IF key \in DOMAIN c THEN c[key].val ELSE MissingValue

(* redisProvider.GetJSON: [ok, err, out] *)
GetJSON(c, key, fault) ==
    LET raw == Get(c, key)
    IN IF fault THEN [ok |-> FALSE, err |-> TRUE, out |-> NoResp]
       ELSE IF raw = MissingValue THEN [ok |-> FALSE, err |-> FALSE, out |-> NoResp]
       ELSE IF raw.fmt # "json" THEN [ok |-> FALSE, err |-> TRUE, out |-> NoResp]
       ELSE [ok |-> TRUE, err |-> FALSE, out |-> raw.body]

(* strconv.ParseUint(raw, 10, 64) of a stored string: [err, n] *)
ParseUint(raw) ==
    IF raw.fmt = "decimal" /\ raw.body.count >= 0
    THEN [err |-> FALSE, n |-> raw.body.count]
    ELSE [err |-> TRUE, n |-> 0]

(* *bool, the result type of the generated HasMutualLike *)
NilBool == [nil |-> TRUE, val |-> FALSE]
BoolPtr(b) == [nil |-> FALSE, val |-> b]

IdleRequest ==
    [op |-> "none", pc |-> "idle", actor |-> EmptyId, recipient |-> EmptyId,
     liked |-> FALSE, token |-> EmptyToken,
     key |-> NoKey, probe |-> "none", raw |-> MissingValue, cached |-> NoResp,
     storeCalls |-> 0, storeOut |-> "none", storeRes |-> NoResp,
     mutualCalls |-> 0, mutualRes |-> NilBool, writes |-> <<>>,
     code |-> "none", msg |-> "", coreMsg |-> "", resp |-> NoResp]

----------------------------------------------------------------------------
(* what main hands to NewExploreCore: the provider NewRedisCacheProvider
   built, or the nil it returns with the error that main only logs *)
RedisProvider == "redis"
NilProvider == "nil"

(* sets the requests draw their inputs from *)

CraftedTokens ==
    { Encode(Cursor(last, limit)) : last \in 1..(MaxSeconds + 1), limit \in 0..MaxTokenLimit }

Tokens == { EmptyToken, NotBase64Token, NotJsonToken, EmptyObjectToken } \cup CraftedTokens

(* the core passes the token through: the concurrent specification uses the
   empty token and one well-formed token *)
CoreTokens == { EmptyToken, Encode(Cursor(MaxSeconds + 1, MaxTokenLimit)) }

Init ==
    /\ decisions = {}
    /\ now = 1
    /\ cache = << >>
    /\ tasks = EmptyBag
    /\ rq = [p \in Procs |-> IdleRequest]
    /\ puts = 0
    /\ reads = 0
    /\ trav = [active |-> FALSE, complete |-> FALSE, seen |-> <<>>]
    /\ warned = FALSE
    /\ cacheProvider = RedisProvider

Finish(r, code, msg, resp) ==
    [r EXCEPT !.pc = "done", !.code = code, !.msg = msg, !.resp = resp]

(* a process takes a new request once it has answered the previous one *)
Admit(p) == rq[p].pc \in {"idle", "done"}

----------------------------------------------------------------------------
(* service layer: validation, then the core is entered *)

ReadEntry(p, op, recipient, token, key) ==
    /\ Admit(p)
    /\ reads' = reads + 1
    /\ rq' = [rq EXCEPT ![p] =
                IF recipient = EmptyId
                THEN Finish([IdleRequest EXCEPT !.op = op, !.recipient = recipient,
                                                !.token = token],
                            "InvalidArgument", "recipient_user_id is required", NoResp)
                ELSE [IdleRequest EXCEPT !.op = op, !.recipient = recipient,
                                         !.token = token, !.key = key, !.pc = "probe"]]
    /\ UNCHANGED <<cacheProvider, decisions, now, cache, tasks, puts, warned>>

ListLikedYou(p, recipient, token) ==
    /\ ReadEntry(p, "ListLikedYou", recipient, token, LikersKey(recipient, token))
    /\ UNCHANGED trav

ListNewLikedYou(p, recipient, token) ==
    /\ ReadEntry(p, "ListNewLikedYou", recipient, token, NewLikersKey(recipient, token))
    /\ UNCHANGED trav

CountLikedYou(p, recipient) ==
    /\ ReadEntry(p, "CountLikedYou", recipient, EmptyToken, LikersCountKey(recipient))
    /\ UNCHANGED trav

(* variant: a decision about oneself is let through *)
PutDecision_SelfAllowed(p, actor, recipient, liked) ==
    /\ Admit(p)
    /\ puts' = puts + 1
    /\ LET r == [IdleRequest EXCEPT !.op = "PutDecision", !.actor = actor,
                                    !.recipient = recipient, !.liked = liked]
       IN rq' = [rq EXCEPT ![p] =
                IF actor = EmptyId
                THEN Finish(r, "InvalidArgument", "actor_user_id is required", NoResp)
                ELSE IF recipient = EmptyId
                THEN Finish(r, "InvalidArgument", "recipient_user_id is required", NoResp)
                ELSE [r EXCEPT !.pc = "upsert"]]
    /\ UNCHANGED <<cacheProvider, decisions, now, cache, tasks, reads, trav, warned>>

PutDecision(p, actor, recipient, liked) ==
    /\ Admit(p)
    /\ puts' = puts + 1
    /\ LET r == [IdleRequest EXCEPT !.op = "PutDecision", !.actor = actor,
                                    !.recipient = recipient, !.liked = liked]
       IN rq' = [rq EXCEPT ![p] =
                IF actor = EmptyId
                THEN Finish(r, "InvalidArgument", "actor_user_id is required", NoResp)
                ELSE IF recipient = EmptyId
                THEN Finish(r, "InvalidArgument", "recipient_user_id is required", NoResp)
                ELSE IF actor = recipient
                THEN Finish(r, "InvalidArgument",
                            "actor and recipient cannot be the same user", NoResp)
                ELSE [r EXCEPT !.pc = "upsert"]]
    /\ UNCHANGED <<cacheProvider, decisions, now, cache, tasks, reads, trav, warned>>

----------------------------------------------------------------------------
(* core layer: cache-aside reads *)

(* variants of the hit test: the error compared the wrong way round, and an
   error taken for a hit *)
CacheHit_ErrNotNil(ok, err) == err /\ ok

CacheHit_OnError(ok, err) == err \/ ok

(* err == nil && ok *)
CacheHit(ok, err) == (~err) /\ ok

ProbeOutcome(ok, err) == IF err THEN "error" ELSE IF ok THEN "hit" ELSE "miss"

(* a method called on the nil provider: the handler's goroutine panics, and
   with no recovery installed the process goes down with it *)
Panic(r) == [r EXCEPT !.pc = "panic", !.probe = "nil provider"]

Crashed == \E p \in Procs : rq[p].pc = "panic"

LiveContext == "live"
CancelledContext == "cancelled"

(* the probe of a listing: GetJSON, return the cached response on a hit *)
ListProbe(p, op) ==
    /\ rq[p].pc = "probe"
    /\ rq[p].op = op
    /\ IF cacheProvider = NilProvider
       THEN rq' = [rq EXCEPT ![p] = Panic(rq[p])]
       ELSE \E fault \in BOOLEAN :
         LET g == GetJSON(cache, rq[p].key, fault)
             r == [rq[p] EXCEPT !.probe = ProbeOutcome(g.ok, g.err), !.cached = g.out]
         IN rq' = [rq EXCEPT ![p] =
                     IF CacheHit(g.ok, g.err)
                     THEN Finish(r, "OK", "", g.out)
                     ELSE [r EXCEPT !.pc = "fetch"]]
    /\ UNCHANGED <<cacheProvider, decisions, now, cache, tasks, puts, reads, trav, warned>>

QueryErrorResult == [err |-> "query failed", likers |-> <<>>, next |-> EmptyToken]

(* the storage fetch of a listing, the detached cache write and the return *)
ListFetch(p, op, results, ttl, failure) ==
    /\ rq[p].pc = "fetch"
    /\ rq[p].op = op
    /\ \E fault \in BOOLEAN, res0 \in results :
         LET res == IF fault /\ res0.err = "none" THEN QueryErrorResult ELSE res0
             r == [rq[p] EXCEPT !.storeCalls = @ + 1]
             response == ListResp(res.likers, res.next)
             task == [key |-> rq[p].key, val |-> JsonValue(response), ttl |-> ttl,
                      ctx |-> LiveContext]
         IN IF res.err # "none"
            THEN /\ rq' = [rq EXCEPT ![p] =
                            Finish([r EXCEPT !.storeOut = res.err, !.coreMsg = failure],
                                   "Internal", failure, NoResp)]
                 /\ tasks' = tasks
            ELSE /\ rq' = [rq EXCEPT ![p] =
                            Finish([r EXCEPT !.storeOut = "ok", !.storeRes = response,
                                             !.writes = Append(@, task)],
                                   "OK", "", response)]
                 /\ tasks' = tasks (+) SetToBag({task})
    /\ UNCHANGED <<cacheProvider, decisions, now, cache, puts, reads, trav, warned>>

ListLikers_Probe(p) == ListProbe(p, "ListLikedYou")

(* variant: the likers page cached with the TTL of the new-likers page *)
ListLikers_Fetch_NewLikersTTL(p) ==
    ListFetch(p, "ListLikedYou", GetLikers(decisions, rq[p].recipient, rq[p].token),
              NewLikersTTL, "failed to get likers")

ListLikers_Fetch(p) ==
    ListFetch(p, "ListLikedYou", GetLikers(decisions, rq[p].recipient, rq[p].token),
              LikersTTL, "failed to get likers")

ListNewLikers_Probe(p) == ListProbe(p, "ListNewLikedYou")

ListNewLikers_Fetch(p) ==
    ListFetch(p, "ListNewLikedYou", GetNewLikers(decisions, rq[p].recipient, rq[p].token),
              NewLikersTTL, "failed to get new likers")

(* variant: a stored value that is not a number is served as the count 0 *)
CountLikers_Probe_ZeroOnInvalid(p) ==
    /\ rq[p].pc = "probe"
    /\ rq[p].op = "CountLikedYou"
    /\ \E fault \in BOOLEAN :
         LET raw == Get(cache, rq[p].key)
             parsed == ParseUint(raw)
             ok == (~fault) /\ raw # MissingValue
             err == fault
             out == IF ok THEN CountResp(parsed.n) ELSE NoResp
             r == [rq[p] EXCEPT !.probe = ProbeOutcome(ok, err), !.cached = out,
                                !.raw = IF fault THEN MissingValue ELSE raw]
         IN rq' = [rq EXCEPT ![p] =
                     IF CacheHit(ok, err)
                     THEN Finish(r, "OK", "", out)
                     ELSE [r EXCEPT !.pc = "fetch"]]
    /\ UNCHANGED <<cacheProvider, decisions, now, cache, tasks, puts, reads, trav, warned>>

(* CountLikers: Get, then ParseUint of a non-empty value *)
CountLikers_Probe(p) ==
    /\ rq[p].pc = "probe"
    /\ rq[p].op = "CountLikedYou"
    /\ IF cacheProvider = NilProvider
       THEN rq' = [rq EXCEPT ![p] = Panic(rq[p])]
       ELSE \E fault \in BOOLEAN :
         LET raw == Get(cache, rq[p].key)
             parsed == ParseUint(raw)
             ok == (~fault) /\ raw # MissingValue /\ ~parsed.err
             err == fault \/ (raw # MissingValue /\ parsed.err)
             out == IF ok THEN CountResp(parsed.n) ELSE NoResp
             r == [rq[p] EXCEPT !.probe = ProbeOutcome(ok, err), !.cached = out,
                                !.raw = IF fault THEN MissingValue ELSE raw]
         IN rq' = [rq EXCEPT ![p] =
                     IF CacheHit(ok, err)
                     THEN Finish(r, "OK", "", out)
                     ELSE [r EXCEPT !.pc = "fetch"]]
    /\ UNCHANGED <<cacheProvider, decisions, now, cache, tasks, puts, reads, trav, warned>>

(* variant: the count is stored before the response is returned *)
CountLikers_Fetch_WaitsForWrite(p) ==
    /\ rq[p].pc = "fetch"
    /\ rq[p].op = "CountLikedYou"
    /\ \E fault \in BOOLEAN :
         LET count == CountLikes(decisions, rq[p].recipient)
             r == [rq[p] EXCEPT !.storeCalls = @ + 1]
             response == CountResp(count)
             task == [key |-> rq[p].key, val |-> DecimalValue(count), ttl |-> LikersCountTTL,
                      ctx |-> LiveContext]
         IN IF fault
            THEN /\ rq' = [rq EXCEPT ![p] =
                            Finish([r EXCEPT !.storeOut = "query failed"],
                                   "Internal", "failed to count likers", NoResp)]
                 /\ cache' = cache
            ELSE /\ rq' = [rq EXCEPT ![p] =
                            Finish([r EXCEPT !.storeOut = "ok", !.storeRes = response,
                                             !.writes = Append(@, task)],
                                   "OK", "", response)]
                 /\ cache' = [k \in DOMAIN cache \cup {task.key} |->
                                 IF k = task.key THEN [val |-> task.val, ttl |-> task.ttl, at |-> now]
                                 ELSE cache[k]]
    /\ UNCHANGED <<cacheProvider, decisions, now, tasks, puts, reads, trav, warned>>

(* variant: a failed count still starts the cache write *)
CountLikers_Fetch_CachesFailure(p) ==
    /\ rq[p].pc = "fetch"
    /\ rq[p].op = "CountLikedYou"
    /\ \E fault \in BOOLEAN :
         LET count == IF fault THEN 0 ELSE CountLikes(decisions, rq[p].recipient)
             r == [rq[p] EXCEPT !.storeCalls = @ + 1]
             response == CountResp(count)
             task == [key |-> rq[p].key, val |-> DecimalValue(count), ttl |-> LikersCountTTL,
                      ctx |-> LiveContext]
         IN /\ rq' = [rq EXCEPT ![p] =
                        IF fault
                        THEN Finish([r EXCEPT !.storeOut = "query failed",
                                              !.coreMsg = "failed to count likers",
                                              !.writes = Append(@, task)],
                                    "Internal", "failed to count likers", NoResp)
                        ELSE Finish([r EXCEPT !.storeOut = "ok", !.storeRes = response,
                                              !.writes = Append(@, task)],
                                    "OK", "", response)]
            /\ tasks' = tasks (+) SetToBag({task})
    /\ UNCHANGED <<cacheProvider, decisions, now, cache, puts, reads, trav, warned>>

(* variant: a failed count is answered as zero *)
CountLikers_Fetch_ZeroOnError(p) ==
    /\ rq[p].pc = "fetch"
    /\ rq[p].op = "CountLikedYou"
    /\ \E fault \in BOOLEAN :
         LET count == IF fault THEN 0 ELSE CountLikes(decisions, rq[p].recipient)
             r == [rq[p] EXCEPT !.storeCalls = @ + 1]
             response == CountResp(count)
             task == [key |-> rq[p].key, val |-> DecimalValue(count), ttl |-> LikersCountTTL,
                      ctx |-> LiveContext]
         IN /\ rq' = [rq EXCEPT ![p] =
                        Finish([r EXCEPT !.storeOut = IF fault THEN "query failed" ELSE "ok",
                                         !.storeRes = response,
                                         !.writes = Append(@, task)],
                               "OK", "", response)]
            /\ tasks' = tasks (+) SetToBag({task})
    /\ UNCHANGED <<cacheProvider, decisions, now, cache, puts, reads, trav, warned>>

CountLikers_Fetch(p) ==
    /\ rq[p].pc = "fetch"
    /\ rq[p].op = "CountLikedYou"
    /\ \E fault \in BOOLEAN :
         LET count == CountLikes(decisions, rq[p].recipient)
             r == [rq[p] EXCEPT !.storeCalls = @ + 1]
             response == CountResp(count)
             task == [key |-> rq[p].key, val |-> DecimalValue(count), ttl |-> LikersCountTTL,
                      ctx |-> LiveContext]
         IN IF fault
            THEN /\ rq' = [rq EXCEPT ![p] =
                            Finish([r EXCEPT !.storeOut = "query failed",
                                             !.coreMsg = "failed to count likers"],
                                   "Internal", "failed to count likers", NoResp)]
                 /\ tasks' = tasks
            ELSE /\ rq' = [rq EXCEPT ![p] =
                            Finish([r EXCEPT !.storeOut = "ok", !.storeRes = response,
                                             !.writes = Append(@, task)],
                                   "OK", "", response)]
                 /\ tasks' = tasks (+) SetToBag({task})
    /\ UNCHANGED <<cacheProvider, decisions, now, cache, puts, reads, trav, warned>>

(* the context of the request is cancelled once its response has left (or
   by the client); the goroutine holds that same context *)
ContextCancel(t) ==
    /\ BagIn(t, tasks)
    /\ t.ctx = LiveContext
    /\ tasks' = (tasks (-) SetToBag({t})) (+) SetToBag({[t EXCEPT !.ctx = CancelledContext]})
    /\ UNCHANGED <<cacheProvider, decisions, now, cache, rq, puts, reads, trav, warned>>

(* the cache client refuses a command issued with a cancelled context *)
SetFails(t, fault) == fault \/ t.ctx = CancelledContext

(* variant: a failed write turns the answer of its request into an error *)
CacheWrite_FailureSurfaced(t) ==
    /\ BagIn(t, tasks)
    /\ tasks' = tasks (-) SetToBag({t})
    /\ \E fault \in BOOLEAN :
         /\ cache' = IF SetFails(t, fault) THEN cache
                     ELSE [k \in DOMAIN cache \cup {t.key} |->
                             IF k = t.key THEN [val |-> t.val, ttl |-> t.ttl, at |-> now] ELSE cache[k]]
         /\ warned' = (warned \/ (SetFails(t, fault) /\ t.key.op = "likers"))
         /\ rq' = [p \in Procs |->
                     IF SetFails(t, fault) /\ rq[p].writes = <<t>>
                     THEN Finish(rq[p], "Internal", "failed to cache", NoResp)
                     ELSE rq[p]]
    /\ UNCHANGED <<cacheProvider, decisions, now, puts, reads, trav>>

(* the detached goroutine: SetJSON / Set with the TTL, which the cache
   counts from the moment of the write; the error is dropped, ListLikers
   alone logs a warning *)
CacheWrite(t) ==
    /\ BagIn(t, tasks)
    /\ tasks' = tasks (-) SetToBag({t})
    /\ \E fault \in BOOLEAN :
         /\ cache' = IF SetFails(t, fault) THEN cache
                     ELSE [k \in DOMAIN cache \cup {t.key} |->
                             IF k = t.key THEN [val |-> t.val, ttl |-> t.ttl, at |-> now] ELSE cache[k]]
         /\ warned' = (warned \/ (SetFails(t, fault) /\ t.key.op = "likers"))
    /\ UNCHANGED <<cacheProvider, decisions, now, rq, puts, reads, trav>>

(* variant: the count is stored without a TTL and is never dropped *)
CacheExpire_CountKept(k) ==
    /\ k \in DOMAIN cache
    /\ k.op # "likerscount"
    /\ cache' = [j \in DOMAIN cache \ {k} |-> cache[j]]
    /\ UNCHANGED <<cacheProvider, decisions, now, tasks, rq, puts, reads, trav, warned>>

(* the cache provider drops an entry whose TTL has elapsed *)
CacheExpire(k) ==
    /\ k \in DOMAIN cache
    /\ cache' = [j \in DOMAIN cache \ {k} |-> cache[j]]
    /\ UNCHANGED <<cacheProvider, decisions, now, tasks, rq, puts, reads, trav, warned>>

(* the tick at which the cache drops entry e: TTL seconds after its write *)
ExpiresAt(e) == e.at + e.ttl * TicksPerSecond

(* the clock moves on to tick `to`; the entries whose TTL has elapsed by
   then are gone.  A started cache write is not held up for longer than a
   tick at a time: the clock jumps only while no write is pending. *)
Elapse(to) ==
    /\ to > now
    /\ to > now + 1 => tasks = EmptyBag
    /\ now' = to
    /\ cache' = [k \in { j \in DOMAIN cache : ExpiresAt(cache[j]) > to } |-> cache[k]]
    /\ UNCHANGED <<cacheProvider, decisions, tasks, rq, puts, reads, trav, warned>>

----------------------------------------------------------------------------
(* core layer: CreateDecision *)

(* variant: the upsert error is logged but the call goes on to the mutual check *)
CreateDecision_Upsert_ErrorIgnored(p) ==
    /\ rq[p].pc = "upsert"
    /\ \E fault \in BOOLEAN, at \in now..MaxTime :
         LET r == [rq[p] EXCEPT !.storeCalls = @ + 1,
                                !.storeOut = IF fault THEN "upsert failed" ELSE "ok"]
         IN /\ decisions' = IF fault THEN decisions
                             ELSE UpsertDecision(decisions, rq[p].actor, rq[p].recipient,
                                                 rq[p].liked, at)
            /\ now' = IF fault THEN now ELSE at
            /\ rq' = [rq EXCEPT ![p] =
                        IF rq[p].liked
                        THEN [r EXCEPT !.pc = "mutual"]
                        ELSE Finish(r, "OK", "", DecisionResp(FALSE))]
    /\ UNCHANGED <<cacheProvider, cache, tasks, puts, reads, trav, warned>>

(* variant: the mutual check is made for a dislike too *)
CreateDecision_Upsert_AlwaysChecks(p) ==
    /\ rq[p].pc = "upsert"
    /\ \E fault \in BOOLEAN, at \in now..MaxTime :
         LET r == [rq[p] EXCEPT !.storeCalls = @ + 1]
         IN IF fault
            THEN /\ rq' = [rq EXCEPT ![p] =
                            Finish([r EXCEPT !.storeOut = "upsert failed"],
                                   "Internal", "failed to create decision", NoResp)]
                 /\ decisions' = decisions
                 /\ now' = now
            ELSE /\ decisions' = UpsertDecision(decisions, rq[p].actor, rq[p].recipient,
                                                rq[p].liked, at)
                 /\ now' = at
                 /\ rq' = [rq EXCEPT ![p] = [r EXCEPT !.storeOut = "ok", !.pc = "mutual"]]
    /\ UNCHANGED <<cacheProvider, cache, tasks, puts, reads, trav, warned>>

(* variant: a stored decision deletes the recipient's cached entries *)
CreateDecision_Upsert_Invalidates(p) ==
    /\ rq[p].pc = "upsert"
    /\ \E fault \in BOOLEAN, at \in now..MaxTime :
         LET r == [rq[p] EXCEPT !.storeCalls = @ + 1]
         IN IF fault
            THEN /\ rq' = [rq EXCEPT ![p] =
                            Finish([r EXCEPT !.storeOut = "upsert failed"],
                                   "Internal", "failed to create decision", NoResp)]
                 /\ decisions' = decisions
                 /\ now' = now
                 /\ cache' = cache
            ELSE /\ decisions' = UpsertDecision(decisions, rq[p].actor, rq[p].recipient,
                                                rq[p].liked, at)
                 /\ now' = at
                 /\ rq' = [rq EXCEPT ![p] =
                            IF rq[p].liked
                            THEN [r EXCEPT !.storeOut = "ok", !.pc = "mutual"]
                            ELSE Finish([r EXCEPT !.storeOut = "ok"], "OK", "",
                                        DecisionResp(FALSE))]
                 /\ cache' = [k \in { j \in DOMAIN cache :
                                        j.text = <<>> \/ << j.text[1] >> # UserText(rq[p].recipient) } |->
                                 cache[k]]
    /\ UNCHANGED <<cacheProvider, tasks, puts, reads, trav, warned>>

(* the upsert reads the storage clock: NOW() is some instant at or after the
   previous reading *)
CreateDecision_Upsert(p) ==
    /\ rq[p].pc = "upsert"
    /\ \E fault \in BOOLEAN, at \in now..MaxTime :
         LET r == [rq[p] EXCEPT !.storeCalls = @ + 1]
         IN IF fault
            THEN /\ rq' = [rq EXCEPT ![p] =
                            Finish([r EXCEPT !.storeOut = "upsert failed",
                                             !.coreMsg = "failed to create decision"],
                                   "Internal", "failed to create decision", NoResp)]
                 /\ decisions' = decisions
                 /\ now' = now
            ELSE /\ decisions' = UpsertDecision(decisions, rq[p].actor, rq[p].recipient,
                                                rq[p].liked, at)
                 /\ now' = at
                 /\ rq' = [rq EXCEPT ![p] =
                            IF rq[p].liked
                            THEN [r EXCEPT !.storeOut = "ok", !.pc = "mutual"]
                            ELSE Finish([r EXCEPT !.storeOut = "ok"], "OK", "",
                                        DecisionResp(FALSE))]
    /\ UNCHANGED <<cacheProvider, cache, tasks, puts, reads, trav, warned>>

(* variant: an absent result counted as a mutual like *)
MutualLikes_NilIsTrue(hasMutualLike) == hasMutualLike.nil \/ hasMutualLike.val

(* hasMutualLike != nil && *hasMutualLike *)
MutualLikes(hasMutualLike) == (~hasMutualLike.nil) /\ hasMutualLike.val

(* variant: the core's message of a failed check reaches the caller *)
MutualCheck_CoreMessageSurfaced(p, answers) ==
    /\ rq[p].pc = "mutual"
    /\ \E fault \in BOOLEAN, hasMutualLike \in answers :
         LET r == [rq[p] EXCEPT !.mutualCalls = @ + 1]
         IN rq' = [rq EXCEPT ![p] =
                     IF fault
                     THEN Finish([r EXCEPT !.storeOut = "mutual check failed",
                                          !.coreMsg = "failed to check mutual like"],
                                 "Internal", "failed to check mutual like", NoResp)
                     ELSE Finish([r EXCEPT !.mutualRes = hasMutualLike], "OK", "",
                                 DecisionResp(MutualLikes(hasMutualLike)))]
    /\ UNCHANGED <<cacheProvider, decisions, now, cache, tasks, puts, reads, trav, warned>>

(* variant: the core reports a failed check with the message of a failed upsert *)
MutualCheck_UpsertMessage(p, answers) ==
    /\ rq[p].pc = "mutual"
    /\ \E fault \in BOOLEAN, hasMutualLike \in answers :
         LET r == [rq[p] EXCEPT !.mutualCalls = @ + 1]
         IN rq' = [rq EXCEPT ![p] =
                     IF fault
                     THEN Finish([r EXCEPT !.storeOut = "mutual check failed",
                                          !.coreMsg = "failed to create decision"],
                                 "Internal", "failed to create decision", NoResp)
                     ELSE Finish([r EXCEPT !.mutualRes = hasMutualLike], "OK", "",
                                 DecisionResp(MutualLikes(hasMutualLike)))]
    /\ UNCHANGED <<cacheProvider, decisions, now, cache, tasks, puts, reads, trav, warned>>

(* the mutual check of a like, answers being what the repository may return *)
MutualCheck(p, answers) ==
    /\ rq[p].pc = "mutual"
    /\ \E fault \in BOOLEAN, hasMutualLike \in answers :
         LET r == [rq[p] EXCEPT !.mutualCalls = @ + 1]
         IN rq' = [rq EXCEPT ![p] =
                     IF fault
                     THEN Finish([r EXCEPT !.storeOut = "mutual check failed",
                                          !.coreMsg = "failed to check mutual like"],
                                 "Internal", "failed to create decision", NoResp)
                     ELSE Finish([r EXCEPT !.mutualRes = hasMutualLike], "OK", "",
                                 DecisionResp(MutualLikes(hasMutualLike)))]
    /\ UNCHANGED <<cacheProvider, decisions, now, cache, tasks, puts, reads, trav, warned>>

(* variant: the recipient is passed for both parameters of the query *)
CreateDecision_MutualCheck_SameUser(p) ==
    MutualCheck(p, { BoolPtr(HasMutualLike(decisions, rq[p].recipient, rq[p].recipient)) })

CreateDecision_MutualCheck(p) ==
    MutualCheck(p, { BoolPtr(HasMutualLike(decisions, rq[p].actor, rq[p].recipient)) })

(* the core against any implementation of the repository interface: the
   pointer it returns may be nil *)
CreateDecision_MutualCheck_AnyRepository(p) ==
    MutualCheck(p, { NilBool, BoolPtr(TRUE), BoolPtr(FALSE) })

----------------------------------------------------------------------------
(* specifications *)

(* concurrent requests of two users about each other *)
Arrival ==
    /\ reads + puts < MaxRequests
    /\ \/ \E p \in Procs, recipient \in PairUsers, token \in CoreTokens :
             ListLikedYou(p, recipient, token)
       \/ \E p \in Procs, recipient \in PairUsers, token \in CoreTokens :
             ListNewLikedYou(p, recipient, token)
       \/ \E p \in Procs, recipient \in PairUsers : CountLikedYou(p, recipient)
       \/ \E p \in Procs, actor \in PairUsers, recipient \in PairUsers, liked \in BOOLEAN :
             PutDecision(p, actor, recipient, liked)

Next ==
    \/ Arrival
    \/ \E p \in Procs : ListLikers_Probe(p)
    \/ \E p \in Procs : ListLikers_Fetch(p)
    \/ \E p \in Procs : ListNewLikers_Probe(p)
    \/ \E p \in Procs : ListNewLikers_Fetch(p)
    \/ \E p \in Procs : CountLikers_Probe(p)
    \/ \E p \in Procs : CountLikers_Fetch(p)
    \/ \E p \in Procs : CreateDecision_Upsert(p)
    \/ \E p \in Procs : CreateDecision_MutualCheck(p)
    \/ \E t \in BagToSet(tasks) : CacheWrite(t)
    \/ \E k \in DOMAIN cache : CacheExpire(k)

Spec == Init /\ [][Next]_vars

(* the same requests, and the contexts of answered requests get cancelled
   while their cache writes are pending; in Spec such a write is one of the
   failed writes *)
NextDetached ==
    \/ Next
    \/ \E t \in BagToSet(tasks) : ContextCancel(t)

SpecDetached == Init /\ [][NextDetached]_vars

(* one client: decisions are put, then one read request with any kind of
   input is served from the storage *)
ArrivalSeq ==
    \/ /\ reads < MaxReads
       /\ \/ \E recipient \in Users \cup {EmptyId}, token \in Tokens :
                ListLikedYou(1, recipient, token)
          \/ \E recipient \in Users \cup {EmptyId}, token \in Tokens :
                ListNewLikedYou(1, recipient, token)
          \/ \E recipient \in Users \cup {EmptyId} : CountLikedYou(1, recipient)
    \/ /\ puts < MaxPuts
       /\ \E actor \in Users \cup {EmptyId}, recipient \in Users \cup {EmptyId},
             liked \in BOOLEAN : PutDecision(1, actor, recipient, liked)

NextSeq ==
    \/ ArrivalSeq
    \/ ListLikers_Probe(1)
    \/ ListLikers_Fetch(1)
    \/ ListNewLikers_Probe(1)
    \/ ListNewLikers_Fetch(1)
    \/ CountLikers_Probe(1)
    \/ CountLikers_Fetch(1)
    \/ CreateDecision_Upsert(1)
    \/ CreateDecision_MutualCheck(1)
    \/ \E t \in BagToSet(tasks) : CacheWrite(t)
    \/ \E k \in DOMAIN cache : CacheExpire(k)

SpecSeq == Init /\ [][NextSeq]_vars

(* CreateDecision of the core over a repository whose mutual check may
   answer anything its type allows *)
NextCore ==
    \/ /\ puts < MaxRequests
       /\ \E p \in Procs, actor \in PairUsers, recipient \in PairUsers, liked \in BOOLEAN :
             PutDecision(p, actor, recipient, liked)
    \/ \E p \in Procs : CreateDecision_Upsert(p)
    \/ \E p \in Procs : CreateDecision_MutualCheck_AnyRepository(p)

SpecCore == Init /\ [][NextCore]_vars

(* a client lists the likers of one recipient page by page: the first
   request carries no token, each further one the next token of the previous
   response; no decision is written meanwhile *)
Traveller == 1
Listed == 1

(* n likers of Listed, one per second, newest first by id; row shifted, if
   any, is moved towards the following row: into its second, or onto its instant *)
LikersAt(n, shifted, by) ==
    { [actor_user_id |-> Listed + i, recipient_user_id |-> Listed, liked_recipient |-> TRUE,
       created_at |-> i * TicksPerSecond + (IF i = shifted THEN by ELSE 0)] : i \in 1..n }

InitTraverse ==
    /\ \E n \in 0..MaxLikers, shifted \in 0..MaxLikers, by \in 1..TicksPerSecond :
          /\ shifted <= n
          /\ decisions = LikersAt(n, shifted, by)
          /\ now = (n + 1) * TicksPerSecond
    /\ cache = << >>
    /\ tasks = EmptyBag
    /\ rq = [p \in Procs |-> IdleRequest]
    /\ puts = 0
    /\ reads = 0
    /\ trav = [active |-> FALSE, complete |-> FALSE, seen |-> <<>>]
    /\ warned = FALSE
    /\ cacheProvider = RedisProvider

FirstPage ==
    /\ ~trav.active
    /\ trav' = [trav EXCEPT !.active = TRUE]
    /\ ReadEntry(Traveller, "ListLikedYou", Listed, EmptyToken, LikersKey(Listed, EmptyToken))

FollowPage ==
    /\ trav.active
    /\ ~trav.complete
    /\ rq[Traveller].pc = "done"
    /\ rq[Traveller].code = "OK"
    /\ LET resp == rq[Traveller].resp
       IN /\ trav' = [trav EXCEPT !.seen = @ \o resp.likers,
                                  !.complete = (resp.next = EmptyToken)]
          /\ IF resp.next = EmptyToken
             THEN /\ rq' = [rq EXCEPT ![Traveller] = IdleRequest]
                  /\ UNCHANGED <<cacheProvider, decisions, now, cache, tasks, puts, reads, warned>>
             ELSE ReadEntry(Traveller, "ListLikedYou", Listed, resp.next,
                            LikersKey(Listed, resp.next))

NextTraverse ==
    \/ FirstPage
    \/ FollowPage
    \/ ListLikers_Probe(Traveller)
    \/ ListLikers_Fetch(Traveller)
    \/ \E t \in BagToSet(tasks) : CacheWrite(t)
    \/ \E k \in DOMAIN cache : CacheExpire(k)

SpecTraverse == InitTraverse /\ [][NextTraverse]_vars

(* The cache against the clock: one recipient, one decision about them, and
   reads of the three kinds without a token, while the clock runs past the
   TTLs.  Entries leave the cache by their TTL only. *)

Watched == 1
Decider == 2

(* the ticks the clock is observed at: those a decision or a cache write can
   be made at, and for each TTL the last tick an entry written at the last
   of them is held and the tick it is gone *)
LastWriteTick == MaxTime
ClockTicks ==
    (1..LastWriteTick) \cup
    { LastWriteTick + ttl * TicksPerSecond - k :
        ttl \in { LikersTTL, NewLikersTTL, LikersCountTTL }, k \in { 0, 1 } }

ArrivalStale ==
    \E p \in Procs :
       /\ reads + puts < MaxRequests
       /\ \/ ListLikedYou(p, Watched, EmptyToken)
          \/ ListNewLikedYou(p, Watched, EmptyToken)
          \/ CountLikedYou(p, Watched)
          \/ /\ decisions = {}
             /\ PutDecision(p, Decider, Watched, TRUE)

NextStale ==
    \/ ArrivalStale
    \/ \E p \in Procs : ListLikers_Probe(p)
    \/ \E p \in Procs : ListLikers_Fetch(p)
    \/ \E p \in Procs : ListNewLikers_Probe(p)
    \/ \E p \in Procs : ListNewLikers_Fetch(p)
    \/ \E p \in Procs : CountLikers_Probe(p)
    \/ \E p \in Procs : CountLikers_Fetch(p)
    \/ \E p \in Procs : CreateDecision_Upsert(p)
    \/ \E p \in Procs : CreateDecision_MutualCheck(p)
    \/ \E t \in BagToSet(tasks) : CacheWrite(t)
    \/ \E to \in ClockTicks : Elapse(to)

SpecStale == Init /\ [][NextStale]_vars

(* The server after either outcome of the cache's construction at startup:
   main goes on with whatever NewRedisCacheProvider returned.  A panic ends
   the process, and every request with it. *)
InitStartup ==
    /\ decisions = {}
    /\ now = 1
    /\ cache = << >>
    /\ tasks = EmptyBag
    /\ rq = [p \in Procs |-> IdleRequest]
    /\ puts = 0
    /\ reads = 0
    /\ trav = [active |-> FALSE, complete |-> FALSE, seen |-> <<>>]
    /\ warned = FALSE
    /\ cacheProvider \in { RedisProvider, NilProvider }

NextStartup ==
    \/ (~Crashed) /\ Arrival
    \/ \E p \in Procs : (~Crashed) /\ ListLikers_Probe(p)
    \/ \E p \in Procs : (~Crashed) /\ ListLikers_Fetch(p)
    \/ \E p \in Procs : (~Crashed) /\ ListNewLikers_Probe(p)
    \/ \E p \in Procs : (~Crashed) /\ ListNewLikers_Fetch(p)
    \/ \E p \in Procs : (~Crashed) /\ CountLikers_Probe(p)
    \/ \E p \in Procs : (~Crashed) /\ CountLikers_Fetch(p)
    \/ \E p \in Procs : (~Crashed) /\ CreateDecision_Upsert(p)
    \/ \E p \in Procs : (~Crashed) /\ CreateDecision_MutualCheck(p)
    \/ \E t \in BagToSet(tasks) : (~Crashed) /\ CacheWrite(t)
    \/ \E k \in DOMAIN cache : (~Crashed) /\ CacheExpire(k)

SpecStartup == InitStartup /\ [][NextStartup]_vars

(* The count of one recipient while the cache it shares holds values this
   service did not write: an empty string, a text that is not a number, a
   negative number. *)

NotANumber == [fmt |-> "text", body |-> NoResp]

ForeignValues == { MissingValue, NotANumber, DecimalValue(0 - 1) }

(* another client of the cache stores v under key k *)
ForeignSet(k, v) ==
    /\ cache' = [j \in DOMAIN cache \cup {k} |->
                   IF j = k THEN [val |-> v, ttl |-> LikersCountTTL, at |-> now] ELSE cache[j]]
    /\ UNCHANGED <<cacheProvider, decisions, now, tasks, rq, puts, reads, trav, warned>>

ArrivalCount ==
    \E p \in Procs :
       /\ reads + puts < MaxRequests
       /\ \/ CountLikedYou(p, Watched)
          \/ \E liked \in BOOLEAN : PutDecision(p, Decider, Watched, liked)

NextCount ==
    \/ ArrivalCount
    \/ \E p \in Procs : CountLikers_Probe(p)
    \/ \E p \in Procs : CountLikers_Fetch(p)
    \/ \E p \in Procs : CreateDecision_Upsert(p)
    \/ \E p \in Procs : CreateDecision_MutualCheck(p)
    \/ \E t \in BagToSet(tasks) : CacheWrite(t)
    \/ \E k \in DOMAIN cache : CacheExpire(k)
    \/ \E v \in ForeignValues : ForeignSet(LikersCountKey(Watched), v)

SpecCount == Init /\ [][NextCount]_vars

(* Listings for two recipients whose identifiers differ by a colon, with
   and without a token that holds one: requests whose keys have the same text. *)

KeyRecipients == { 1, ColonUser }

KeyTokens == { EmptyToken, ColonToken }

ArrivalKeys ==
    \E p \in Procs :
       /\ reads + puts < MaxRequests
       /\ \/ \E recipient \in KeyRecipients, token \in KeyTokens :
                ListLikedYou(p, recipient, token)
          \/ \E recipient \in KeyRecipients, token \in KeyTokens :
                ListNewLikedYou(p, recipient, token)
          \/ \E recipient \in KeyRecipients : PutDecision(p, Decider, recipient, TRUE)

NextKeys ==
    \/ ArrivalKeys
    \/ \E p \in Procs : ListLikers_Probe(p)
    \/ \E p \in Procs : ListLikers_Fetch(p)
    \/ \E p \in Procs : ListNewLikers_Probe(p)
    \/ \E p \in Procs : ListNewLikers_Fetch(p)
    \/ \E p \in Procs : CreateDecision_Upsert(p)
    \/ \E p \in Procs : CreateDecision_MutualCheck(p)
    \/ \E t \in BagToSet(tasks) : CacheWrite(t)
    \/ \E k \in DOMAIN cache : CacheExpire(k)

SpecKeys == Init /\ [][NextKeys]_vars

(* The server in the long run: clients never stop reading what one recipient
   has received, one decision is put, every started cache
   write is run by the scheduler, and the cache drops every entry when its
   TTL is over.  Reads are not counted here; at most MaxPending cache writes
   are waiting at a time, and the decision comes in on the first process
   (the processes are interchangeable). *)

MaxPending == 1
MaxSteadyPuts == 1

SteadyEntry(p, op, recipient, token, key) ==
    /\ Admit(p)
    /\ rq' = [rq EXCEPT ![p] =
                IF recipient = EmptyId
                THEN Finish([IdleRequest EXCEPT !.op = op, !.recipient = recipient,
                                                !.token = token],
                            "InvalidArgument", "recipient_user_id is required", NoResp)
                ELSE [IdleRequest EXCEPT !.op = op, !.recipient = recipient,
                                         !.token = token, !.key = key, !.pc = "probe"]]
    /\ UNCHANGED <<cacheProvider, decisions, now, cache, tasks, puts, reads, trav, warned>>

ArrivalSteady ==
    \E p \in Procs :
       \/ /\ BagCardinality(tasks) < MaxPending
          /\ \/ SteadyEntry(p, "ListLikedYou", Watched, EmptyToken,
                             LikersKey(Watched, EmptyToken))
             \/ SteadyEntry(p, "ListNewLikedYou", Watched, EmptyToken,
                             NewLikersKey(Watched, EmptyToken))
             \/ SteadyEntry(p, "CountLikedYou", Watched, EmptyToken,
                             LikersCountKey(Watched))
       \/ /\ puts < MaxSteadyPuts
          /\ p = 1
          /\ PutDecision(p, Decider, Watched, TRUE)

NextSteady ==
    \/ ArrivalSteady
    \/ \E p \in Procs : ListLikers_Probe(p)
    \/ \E p \in Procs : ListLikers_Fetch(p)
    \/ \E p \in Procs : ListNewLikers_Probe(p)
    \/ \E p \in Procs : ListNewLikers_Fetch(p)
    \/ \E p \in Procs : CountLikers_Probe(p)
    \/ \E p \in Procs : CountLikers_Fetch(p)
    \/ \E p \in Procs : CreateDecision_Upsert(p)
    \/ \E p \in Procs : CreateDecision_MutualCheck(p)
    \/ \E t \in BagToSet(tasks) : CacheWrite(t)
    \/ \E k \in DOMAIN cache : CacheExpire(k)

(* the relations the puts of ArrivalSteady can produce *)
SteadyRelations ==
    { {} } \cup
    { { [actor_user_id |-> Decider, recipient_user_id |-> Watched,
         liked_recipient |-> TRUE, created_at |-> at] } : at \in 1..MaxTime }

SteadyKeys ==
    { LikersKey(Watched, EmptyToken), NewLikersKey(Watched, EmptyToken),
      LikersCountKey(Watched) }

(* the cache writes the reads of ArrivalSteady can start *)
SteadyTasks ==
    UNION { { [key |-> LikersKey(Watched, EmptyToken),
               val |-> JsonValue(ListResp(x.likers, x.next)),
               ttl |-> LikersTTL, ctx |-> LiveContext] :
                 x \in GetLikers(db, Watched, EmptyToken) }
            \cup
            { [key |-> NewLikersKey(Watched, EmptyToken),
               val |-> JsonValue(ListResp(x.likers, x.next)),
               ttl |-> NewLikersTTL, ctx |-> LiveContext] :
                 x \in GetNewLikers(db, Watched, EmptyToken) }
            \cup
            { [key |-> LikersCountKey(Watched),
               val |-> DecimalValue(CountLikes(db, Watched)),
               ttl |-> LikersCountTTL, ctx |-> LiveContext] } :
          db \in SteadyRelations }

(* every goroutine started for a cache write gets to run, and every entry
   is dropped by the cache at the end of its TTL *)
FairSteady ==
    /\ \A t \in SteadyTasks : WF_vars(CacheWrite(t))
    /\ \A k \in SteadyKeys : WF_vars(CacheExpire(k))

SpecSteady == Init /\ [][NextSteady]_vars /\ FairSteady

(* A listing walked page by page with a page size carried by the first
   token: the likers of Listed are ScenarioStep seconds apart. *)

ScenarioStep == 100
MaxScenarioLikers == 4
MaxScenarioLimit == 3

ScenarioLikers(n) ==
    { [actor_user_id |-> Listed + i, recipient_user_id |-> Listed, liked_recipient |-> TRUE,
       created_at |-> i * ScenarioStep * TicksPerSecond] : i \in 1..n }

(* no token, or a token placed just above one of the likers *)
ScenarioTokens ==
    { EmptyToken } \cup
    { Encode(Cursor(k * ScenarioStep + 1, limit)) :
        k \in 0..MaxScenarioLikers, limit \in 1..MaxScenarioLimit }

InitScenario ==
    /\ \E n \in 0..MaxScenarioLikers : decisions = ScenarioLikers(n)
    /\ now = MaxScenarioLikers * ScenarioStep * TicksPerSecond + 1
    /\ cache = << >>
    /\ tasks = EmptyBag
    /\ rq = [p \in Procs |-> IdleRequest]
    /\ puts = 0
    /\ reads = 0
    /\ trav = [active |-> FALSE, complete |-> FALSE, seen |-> <<>>]
    /\ warned = FALSE
    /\ cacheProvider = RedisProvider

FirstPageWith(token) ==
    /\ ~trav.active
    /\ trav' = [trav EXCEPT !.active = TRUE]
    /\ ReadEntry(Traveller, "ListLikedYou", Listed, token, LikersKey(Listed, token))

NextScenario ==
    \/ \E token \in ScenarioTokens : FirstPageWith(token)
    \/ FollowPage
    \/ ListLikers_Probe(Traveller)
    \/ ListLikers_Fetch(Traveller)
    \/ \E t \in BagToSet(tasks) : CacheWrite(t)
    \/ \E k \in DOMAIN cache : CacheExpire(k)

SpecScenario == InitScenario /\ [][NextScenario]_vars

(* A walk through the likers of Listed, one per page, while another client
   lists the same recipient and one of the likers likes again.  The relation
   starts with two likers a second apart. *)

MaxWalkRequests == 5

Walker == 3

FirstWalkToken == Encode(Cursor(MaxSeconds + 1, 1))

WalkTokens == { Encode(Cursor(s, 1)) : s \in 1..MaxSeconds }

InitWalk ==
    /\ decisions =
          { [actor_user_id |-> 2, recipient_user_id |-> Listed, liked_recipient |-> TRUE,
             created_at |-> MaxTime],
            [actor_user_id |-> Walker, recipient_user_id |-> Listed, liked_recipient |-> TRUE,
             created_at |-> 1] }
    /\ now = MaxTime
    /\ cache = << >>
    /\ tasks = EmptyBag
    /\ rq = [p \in Procs |-> IdleRequest]
    /\ puts = 0
    /\ reads = 0
    /\ trav = [active |-> FALSE, complete |-> FALSE, seen |-> <<>>]
    /\ warned = FALSE
    /\ cacheProvider = RedisProvider

ArrivalWalk ==
    /\ reads + puts < MaxWalkRequests
    /\ \/ FirstPageWith(FirstWalkToken)
       \/ FollowPage
       \/ \E p \in Procs \ {Traveller}, token \in WalkTokens :
             ListLikedYou(p, Listed, token)
       \/ \E p \in Procs \ {Traveller} : PutDecision(p, Walker, Listed, TRUE)

NextWalk ==
    \/ ArrivalWalk
    \/ \E p \in Procs : ListLikers_Probe(p)
    \/ \E p \in Procs : ListLikers_Fetch(p)
    \/ \E p \in Procs : CreateDecision_Upsert(p)
    \/ \E p \in Procs : CreateDecision_MutualCheck(p)
    \/ \E t \in BagToSet(tasks) : CacheWrite(t)
    \/ \E k \in DOMAIN cache : CacheExpire(k)

SpecWalk == InitWalk /\ [][NextWalk]_vars

----------------------------------------------------------------------------
(* properties *)

ReadOps == { "ListLikedYou", "ListNewLikedYou", "CountLikedYou" }

(* the TTL each read operation is specified to cache its response with *)
SpecifiedTTL(op) ==
    IF op = "ListLikedYou" THEN 30 ELSE IF op = "ListNewLikedYou" THEN 20 ELSE 15

(* the responses the storage gives to request r on db *)
StoreAnswers(db, r) ==
    IF r.op = "ListLikedYou"
    THEN { ListResp(x.likers, x.next) : x \in GetLikers(db, r.recipient, r.token) }
    ELSE IF r.op = "ListNewLikedYou"
    THEN { ListResp(x.likers, x.next) : x \in GetNewLikers(db, r.recipient, r.token) }
    ELSE { CountResp(CountLikes(db, r.recipient)) }

(* C1: when the probe of the request's key succeeds with a decodable value,
   the request ends there with success, its response is the payload stored
   under that key, and the storage is not called (no call is counted, the
   relation and the pending cache writes are untouched). *)
C1_CacheHitReturnsCachedPayload ==
    [][\A p \in Procs :
          (rq[p].pc = "probe" /\ rq'[p].probe = "hit") =>
             /\ rq[p].key \in DOMAIN cache
             /\ rq'[p].pc = "done"
             /\ rq'[p].code = "OK"
             /\ rq'[p].resp.present
             /\ rq'[p].resp = cache[rq[p].key].val.body
             /\ rq'[p].storeCalls = 0
             /\ rq'[p].writes = <<>>
             /\ tasks' = tasks
             /\ decisions' = decisions]_vars

(* a cache hit answered with a page that the storage would not give any more *)
C1_Witness ==
    \E p \in Procs :
       /\ rq[p].op = "ListLikedYou"
       /\ rq[p].probe = "hit"
       /\ rq[p].pc = "done"
       /\ rq[p].storeCalls = 0
       /\ rq[p].resp \notin StoreAnswers(decisions, rq[p])

(* C2: a read request that missed the cache and whose storage fetch
   succeeded has called the storage exactly once and has launched exactly one
   cache write, for the key it probed and with the TTL of its operation
   (likers 30, new likers 20, count 15 seconds). *)
C2_MissFetchesOnceAndWritesOnce ==
    [][\A p \in Procs :
          (rq[p].pc = "fetch" /\ rq[p].probe = "miss" /\ rq'[p].storeOut = "ok") =>
             /\ rq[p].storeCalls = 0
             /\ rq'[p].storeCalls = 1
             /\ rq'[p].pc = "done"
             /\ BagCardinality(tasks') = BagCardinality(tasks) + 1
             /\ \E t \in BagToSet(tasks') :
                   /\ tasks' = tasks (+) SetToBag({t})
                   /\ t.key = rq[p].key
                   /\ t.ttl = SpecifiedTTL(rq[p].op)
                   /\ rq'[p].writes = <<t>>]_vars

(* one request of each operation went through miss, fetch and launch *)
C2_Witness ==
    /\ \E p \in Procs :
          /\ rq[p].op = "ListLikedYou"
          /\ rq[p].probe = "miss"
          /\ rq[p].storeOut = "ok"
          /\ Len(rq[p].writes) = 1
          /\ rq[p].resp.likers # <<>>
    /\ \E p \in Procs :
          /\ rq[p].op = "CountLikedYou"
          /\ rq[p].probe = "miss"
          /\ rq[p].storeOut = "ok"
          /\ Len(rq[p].writes) = 1

(* C3: a cache read error does not end the request: it goes on to the
   storage, and the request then ends with the storage's outcome, success
   and the storage's answer when the fetch succeeded. *)
C3_CacheErrorFallsThrough ==
    [][\A p \in Procs :
          /\ (rq[p].pc = "probe" /\ rq'[p].probe = "error") =>
                /\ rq'[p].pc = "fetch"
                /\ rq'[p].code = "none"
          /\ (rq[p].pc = "fetch" /\ rq[p].probe = "error" /\ rq'[p].pc # "fetch") =>
                /\ rq'[p].pc = "done"
                /\ rq'[p].storeCalls = 1
                /\ \/ /\ rq'[p].storeOut = "ok"
                      /\ rq'[p].code = "OK"
                      /\ rq'[p].resp \in StoreAnswers(decisions, rq[p])
                   \/ /\ rq'[p].storeOut # "ok"
                      /\ rq'[p].code = "Internal"]_vars

(* after a cache error a listing and a count were answered from the storage *)
C3_Witness ==
    /\ \E p \in Procs :
          /\ rq[p].op = "ListLikedYou"
          /\ rq[p].probe = "error"
          /\ rq[p].pc = "done"
          /\ rq[p].code = "OK"
          /\ rq[p].resp.likers # <<>>
    /\ \E p \in Procs :
          /\ rq[p].op = "CountLikedYou"
          /\ rq[p].probe = "error"
          /\ rq[p].pc = "done"
          /\ rq[p].code = "OK"
          /\ rq[p].resp.count > 0

(* C10: the mutual check is only ever made after a successful upsert of the
   same call, and a call whose upsert failed has ended with an internal
   error, without a response and without a mutual check. *)
C10_UpsertFailureIsFatal ==
    \A p \in Procs :
       rq[p].op = "PutDecision" =>
          /\ (rq[p].pc = "mutual" \/ rq[p].mutualCalls > 0) =>
                (rq[p].storeCalls = 1 /\ rq[p].storeOut \in {"ok", "mutual check failed"})
          /\ rq[p].storeOut = "upsert failed" =>
                /\ rq[p].pc = "done"
                /\ rq[p].code = "Internal"
                /\ ~rq[p].resp.present
                /\ rq[p].mutualCalls = 0

(* the upsert of a like failed while the reverse like was already stored *)
C10_Witness ==
    \E p \in Procs :
       /\ rq[p].op = "PutDecision"
       /\ rq[p].liked
       /\ rq[p].storeOut = "upsert failed"
       /\ rq[p].pc = "done"
       /\ \E d \in decisions : /\ d.actor_user_id = rq[p].recipient
                               /\ d.recipient_user_id = rq[p].actor
                               /\ d.liked_recipient

(* the page size a request with cursor c asks for *)
PageSize(c) == IF c.nil \/ c.Limit <= 0 THEN 20 ELSE c.Limit

(* the liked rows of recipient that lie behind the position of the token *)
RowsBehind(rows, token) ==
    { d \in rows : token # EmptyToken =>
                      EpochSeconds(d.created_at) < DecodeCursor(token).cursor.LastCreatedAt }

LikedRows(db, recipient) ==
    { d \in db : d.recipient_user_id = recipient /\ d.liked_recipient }

(* likers whom the recipient has made no decision about *)
NewLikerRows(db, recipient) ==
    { d \in LikedRows(db, recipient) :
         ~ \E d2 \in db : /\ d2.actor_user_id = recipient
                          /\ d2.recipient_user_id = d.actor_user_id }

IsItemOf(item, d) ==
    item.ActorId = d.actor_user_id /\ item.UnixTimestamp = EpochSeconds(d.created_at)

ReturnedRows(page, rows) ==
    { d \in rows : \E i \in 1..Len(page) : IsItemOf(page[i], d) }

(* page and next token as the keyset contract gives them for the rows that
   match: the L newest and a token (timestamp of the L-th item, L) when more
   than L match, all of them and no token otherwise *)
KeysetPage(page, next, matching, L) ==
    LET returned == ReturnedRows(page, matching)
    IN /\ \A i \in 1..Len(page) : \E d \in matching : IsItemOf(page[i], d)
       /\ Cardinality(returned) = Len(page)
       /\ IF Cardinality(matching) > L
          THEN /\ Len(page) = L
               /\ \A d \in returned, e \in matching \ returned :
                     e.created_at <= d.created_at
               /\ next # EmptyToken
               /\ DecodeCursor(next) =
                     [err |-> FALSE, cursor |-> Cursor(page[L].UnixTimestamp, L)]
          ELSE /\ returned = matching
               /\ next = EmptyToken

(* C4: a page of GetLikers served from the storage is the keyset page of the
   liked rows of the recipient that are strictly older than the cursor's
   last_created_at (all of them without a token), for the page size in force. *)
C4_GetLikersPaginationExact ==
    \A p \in Procs :
       (rq[p].op = "ListLikedYou" /\ rq[p].pc = "done" /\ rq[p].storeOut = "ok") =>
          KeysetPage(rq[p].resp.likers, rq[p].resp.next,
                     RowsBehind(LikedRows(decisions, rq[p].recipient), rq[p].token),
                     PageSize(DecodeCursor(rq[p].token).cursor))

(* C6: a page of GetNewLikers served from the storage is the keyset page of
   the new likers older than the cursor: exactly limit items and a next token
   when more than limit exist, all of them and no token otherwise.  Stated
   for the requests that carry no token or a positive limit, on relations
   where nobody but the recipient has decided about one of its likers. *)
C6_GetNewLikersPagination ==
    \A p \in Procs :
       (/\ rq[p].op = "ListNewLikedYou" /\ rq[p].pc = "done" /\ rq[p].storeOut = "ok"
        /\ (rq[p].token = EmptyToken \/ DecodeCursor(rq[p].token).cursor.Limit > 0)
        /\ \A d \in LikedRows(decisions, rq[p].recipient), d2 \in decisions :
              d2.recipient_user_id = d.actor_user_id =>
                 d2.actor_user_id = rq[p].recipient) =>
          KeysetPage(rq[p].resp.likers, rq[p].resp.next,
                     RowsBehind(NewLikerRows(decisions, rq[p].recipient), rq[p].token),
                     PageSize(DecodeCursor(rq[p].token).cursor))

(* C7: the first page of GetNewLikers(R) lists exactly the actors that like R
   and about whom R has made no decision, whatever third users decided. *)
C7_NewLikersAreUnreciprocatedLikers ==
    \A p \in Procs :
       (/\ rq[p].op = "ListNewLikedYou" /\ rq[p].pc = "done" /\ rq[p].storeOut = "ok"
        /\ rq[p].token = EmptyToken) =>
          { rq[p].resp.likers[i].ActorId : i \in 1..Len(rq[p].resp.likers) } =
             { d.actor_user_id : d \in NewLikerRows(decisions, rq[p].recipient) }

(* C8: a token that decodes to a cursor with limit <= 0 is served, with the
   rows strictly older than the token's last_created_at (up to 20 of them). *)
C8_NonPositiveLimitKeepsPosition ==
    \A p \in Procs :
       (/\ rq[p].op = "ListLikedYou" /\ rq[p].pc = "done"
        /\ rq[p].probe # "hit" /\ rq[p].storeOut # "query failed"
        /\ rq[p].token # EmptyToken
        /\ ~DecodeCursor(rq[p].token).err
        /\ DecodeCursor(rq[p].token).cursor.Limit <= 0) =>
          /\ rq[p].code = "OK"
          /\ LET behind == RowsBehind(LikedRows(decisions, rq[p].recipient), rq[p].token)
             IN Cardinality(behind) <= 20 =>
                   { rq[p].resp.likers[i].ActorId : i \in 1..Len(rq[p].resp.likers) } =
                      { d.actor_user_id : d \in behind }

(* C9: a listing request whose token fails to decode ends with
   invalid-argument. *)
C9_MalformedTokenIsInvalidArgument ==
    \A p \in Procs :
       (/\ rq[p].op \in {"ListLikedYou", "ListNewLikedYou"}
        /\ rq[p].pc = "done"
        /\ DecodeCursor(rq[p].token).err) =>
          rq[p].code = "InvalidArgument"

(* C5: a completed traversal of ListLikedYou, with no write meanwhile, has
   returned every liker of the recipient exactly once, newest first. *)
C5_TraversalIsComplete ==
    trav.complete =>
       /\ { trav.seen[i].ActorId : i \in 1..Len(trav.seen) } =
             { d.actor_user_id : d \in LikedRows(decisions, Listed) }
       /\ Len(trav.seen) = Cardinality(LikedRows(decisions, Listed))
       /\ \A i \in 1..Len(trav.seen), j \in 1..Len(trav.seen) :
             i < j => trav.seen[i].UnixTimestamp >= trav.seen[j].UnixTimestamp

(* the rows of the ordered pair (a, b) *)
PairRows(db, a, b) == { d \in db : d.actor_user_id = a /\ d.recipient_user_id = b }

UpsertSucceeded(r) == r.storeCalls = 1 /\ r.storeOut \in {"ok", "mutual check failed"}

(* C11: HasMutualLike is invoked if and only if the upsert succeeded and the
   decision is a like; a dislike never reaches the check and never answers
   mutual_likes = true. *)
C11_MutualCheckOnlyForLikes ==
    \A p \in Procs :
       rq[p].op = "PutDecision" =>
          /\ (rq[p].pc = "mutual" \/ rq[p].mutualCalls > 0) =>
                (rq[p].liked /\ UpsertSucceeded(rq[p]))
          /\ (rq[p].pc = "done" /\ rq[p].liked /\ UpsertSucceeded(rq[p])) =>
                rq[p].mutualCalls = 1
          /\ ~rq[p].liked =>
                /\ rq[p].pc # "mutual"
                /\ rq[p].mutualCalls = 0
                /\ ~rq[p].resp.mutual_likes

(* a dislike was stored and answered while the two users liked each other
   until then: the reverse like is there *)
C11_Witness ==
    \E p \in Procs :
       /\ rq[p].op = "PutDecision"
       /\ ~rq[p].liked
       /\ rq[p].pc = "done"
       /\ rq[p].code = "OK"
       /\ rq[p].mutualCalls = 0
       /\ \E d \in PairRows(decisions, rq[p].recipient, rq[p].actor) : d.liked_recipient
       /\ \E d \in PairRows(decisions, rq[p].actor, rq[p].recipient) : ~d.liked_recipient

(* C12: when the mutual check ran, the response's mutual_likes is the
   check's result, nil counting as false; when the check failed the call
   ends with an internal error and no response. *)
C12_MutualLikesIsCheckResult ==
    \A p \in Procs :
       (rq[p].op = "PutDecision" /\ rq[p].pc = "done" /\ rq[p].mutualCalls > 0) =>
          IF rq[p].storeOut = "mutual check failed"
          THEN rq[p].code = "Internal" /\ ~rq[p].resp.present
          ELSE /\ rq[p].code = "OK"
               /\ rq[p].resp.present
               /\ rq[p].resp.mutual_likes = (IF rq[p].mutualRes.nil THEN FALSE
                                             ELSE rq[p].mutualRes.val)

(* the check answered nil and the call answered mutual_likes = false, and
   another check failed *)
C12_Witness ==
    /\ \E p \in Procs :
          /\ rq[p].op = "PutDecision"
          /\ rq[p].pc = "done"
          /\ rq[p].mutualCalls = 1
          /\ rq[p].storeOut = "ok"
          /\ rq[p].mutualRes.nil
          /\ rq[p].code = "OK"
          /\ ~rq[p].resp.mutual_likes
    /\ \E p \in Procs :
          /\ rq[p].op = "PutDecision"
          /\ rq[p].pc = "done"
          /\ rq[p].storeOut = "mutual check failed"

(* C13: the relation never holds two rows of one ordered pair, and a
   successful upsert leaves for its pair the single row (liked of the call,
   created_at of the call, not earlier than the row it replaces) and touches
   no other row. *)
C13_OneRowPerOrderedPair ==
    [][/\ \A a \in Users, b \in Users : Cardinality(PairRows(decisions', a, b)) <= 1
       /\ \A p \in Procs :
             (rq[p].pc = "upsert" /\ rq'[p].storeOut = "ok") =>
                LET a == rq[p].actor
                    b == rq[p].recipient
                IN /\ PairRows(decisions', a, b) =
                         { [actor_user_id |-> a, recipient_user_id |-> b,
                            liked_recipient |-> rq[p].liked, created_at |-> now'] }
                   /\ \A d \in PairRows(decisions, a, b) : d.created_at <= now'
                   /\ decisions' \ PairRows(decisions', a, b) =
                         decisions \ PairRows(decisions, a, b)]_vars

(* PutDecision(A, B, true) was answered twice and one row stands for (A, B),
   liked, with the created_at of the later call *)
C13_Witness ==
    \E p \in Procs, q \in Procs :
       /\ p # q
       /\ rq[p].op = "PutDecision" /\ rq[q].op = "PutDecision"
       /\ rq[p].pc = "done" /\ rq[q].pc = "done"
       /\ rq[p].code = "OK" /\ rq[q].code = "OK"
       /\ rq[p].actor = rq[q].actor /\ rq[p].recipient = rq[q].recipient
       /\ rq[p].liked /\ rq[q].liked
       /\ now > 1
       /\ PairRows(decisions, rq[p].actor, rq[p].recipient) =
             { [actor_user_id |-> rq[p].actor, recipient_user_id |-> rq[p].recipient,
                liked_recipient |-> TRUE, created_at |-> now] }

(* C14: HasMutualLike is symmetric, and true exactly when both rows exist
   with liked = true. *)
C14_MutualLikeSymmetric ==
    \A a \in Users, b \in Users :
       /\ HasMutualLike(decisions, a, b) = HasMutualLike(decisions, b, a)
       /\ HasMutualLike(decisions, a, b) =
             (/\ \E d \in PairRows(decisions, a, b) : d.liked_recipient
              /\ \E d \in PairRows(decisions, b, a) : d.liked_recipient)

(* one user likes the other and is disliked back *)
C14_Witness ==
    \E a \in Users, b \in Users :
       /\ \E d \in PairRows(decisions, a, b) : d.liked_recipient
       /\ \E d \in PairRows(decisions, b, a) : ~d.liked_recipient

(* C15: in a sequence of calls, a like that is answered while the reverse
   like is stored is answered with mutual_likes = true. *)
C15_SecondLikeIsMutual ==
    \A p \in Procs :
       (/\ rq[p].op = "PutDecision" /\ rq[p].pc = "done" /\ rq[p].code = "OK"
        /\ rq[p].liked
        /\ \E d \in PairRows(decisions, rq[p].recipient, rq[p].actor) : d.liked_recipient) =>
          rq[p].resp.mutual_likes

(* the second of two likes, b to a after a to b, was answered *)
C15_Witness ==
    \E p \in Procs :
       /\ rq[p].op = "PutDecision" /\ rq[p].pc = "done" /\ rq[p].code = "OK"
       /\ rq[p].liked
       /\ puts = 2
       /\ \E d \in PairRows(decisions, rq[p].recipient, rq[p].actor) :
             d.liked_recipient /\ d.created_at < now
       /\ rq[p].resp.mutual_likes

(* C16: when a call upserts while another call for the same pair is in
   progress or answered, the other call is not affected, and the pair's row
   is the single row with the value of the upsert applied now; a failed
   upsert leaves the relation alone. *)
C16_ConcurrentUpsertsLastWins ==
    [][\A p \in Procs, q \in Procs :
          (/\ p # q
           /\ rq[p].op = "PutDecision" /\ rq[q].op = "PutDecision"
           /\ rq[p].actor = rq[q].actor /\ rq[p].recipient = rq[q].recipient
           /\ rq[q].pc \in {"upsert", "mutual", "done"}
           /\ rq[p].pc = "upsert" /\ rq'[p].pc # "upsert") =>
             /\ rq'[q] = rq[q]
             /\ rq'[p].storeOut = "ok" =>
                   /\ Cardinality(PairRows(decisions', rq[p].actor, rq[p].recipient)) = 1
                   /\ \A d \in PairRows(decisions', rq[p].actor, rq[p].recipient) :
                         d.liked_recipient = rq[p].liked
             /\ rq'[p].storeOut # "ok" => decisions' = decisions]_vars

(* two calls for one pair with opposite values were both answered with
   success and one row stands *)
C16_Witness ==
    \E p \in Procs, q \in Procs :
       /\ p # q
       /\ rq[p].op = "PutDecision" /\ rq[q].op = "PutDecision"
       /\ rq[p].actor = rq[q].actor /\ rq[p].recipient = rq[q].recipient
       /\ rq[p].liked /\ ~rq[q].liked
       /\ rq[p].pc = "done" /\ rq[q].pc = "done"
       /\ rq[p].code = "OK" /\ rq[q].code = "OK"
       /\ Cardinality(PairRows(decisions, rq[p].actor, rq[p].recipient)) = 1

(* a step of the detached goroutine of task t *)
IsCacheWriteOf(t) == BagIn(t, tasks) /\ tasks' = tasks (-) SetToBag({t})

(* C17: the detached cache write runs with a live context: the cancellation
   of the request's context does not reach it. *)
C17_CacheWriteContextNotCancelled ==
    [][\A t \in BagToSet(tasks) : IsCacheWriteOf(t) => t.ctx = LiveContext]_vars

(* C18: a read that missed the cache is answered in the step of its storage
   fetch: the cache is as it was, and the write it launched is still to be
   made. *)
C18_ResponseDoesNotWaitForCacheWrite ==
    [][\A p \in Procs :
          (rq[p].pc = "fetch" /\ rq'[p].storeOut = "ok") =>
             /\ rq'[p].pc = "done"
             /\ rq'[p].code = "OK"
             /\ rq'[p].resp.present
             /\ cache' = cache
             /\ Len(rq'[p].writes) = 1
             /\ BagIn(rq'[p].writes[1], tasks')]_vars

(* a request was answered, its write is still pending, and an identical
   request has missed the cache *)
C18_Witness ==
    \E p \in Procs, q \in Procs :
       /\ p # q
       /\ rq[p].op \in ReadOps
       /\ rq[p].pc = "done"
       /\ rq[p].code = "OK"
       /\ Len(rq[p].writes) = 1
       /\ BagIn(rq[p].writes[1], tasks)
       /\ rq[p].key \notin DOMAIN cache
       /\ rq[q].op = rq[p].op
       /\ rq[q].key = rq[p].key
       /\ rq[q].pc = "fetch"
       /\ rq[q].probe = "miss"

(* C19: a step of the cache write, succeeding or failing, changes no
   request: the answers made from the storage keep their response and their
   success status. *)
C19_CacheWriteFailureNotSurfaced ==
    [][(\E t \in BagToSet(tasks) : IsCacheWriteOf(t)) =>
          /\ rq' = rq
          /\ \A p \in Procs :
                (rq[p].pc = "done" /\ rq[p].writes # <<>>) =>
                   /\ rq'[p].code = "OK"
                   /\ rq'[p].resp = rq'[p].storeRes]_vars

(* the write of a likers page failed (the warning was logged) and the page
   was answered with success *)
C19_Witness ==
    /\ warned
    /\ \E p \in Procs :
          /\ rq[p].op = "ListLikedYou"
          /\ rq[p].pc = "done"
          /\ rq[p].code = "OK"
          /\ rq[p].resp.likers # <<>>
          /\ Len(rq[p].writes) = 1
          /\ ~BagIn(rq[p].writes[1], tasks)
          /\ rq[p].key \notin DOMAIN cache

(* C20: no step of a PutDecision call, from its arrival to its answer,
   succeeding or failing, changes the cache or the pending cache writes. *)
C20_CreateDecisionLeavesCache ==
    [][\A p \in Procs :
          (rq'[p].op = "PutDecision" /\ rq'[p] # rq[p]) =>
             /\ cache' = cache
             /\ tasks' = tasks]_vars

(* a like was stored and answered while the cached first page of the
   recipient's likers no longer is what the storage gives *)
C20_Witness ==
    \E p \in Procs :
       /\ rq[p].op = "PutDecision"
       /\ rq[p].pc = "done"
       /\ rq[p].code = "OK"
       /\ rq[p].liked
       /\ LikersKey(rq[p].recipient, EmptyToken) \in DOMAIN cache
       /\ cache[LikersKey(rq[p].recipient, EmptyToken)].val.body \notin
             { ListResp(x.likers, x.next) :
                  x \in GetLikers(decisions, rq[p].recipient, EmptyToken) }

(* C22: the empty token decodes to the nil cursor without an error, and a
   listing without a token is served from the storage as the first page: the
   20 newest likers of the recipient, whatever their created_at. *)
C22_EmptyTokenIsFirstPage ==
    /\ DecodeCursor(EmptyToken) = [err |-> FALSE, cursor |-> NilCursor]
    /\ \A p \in Procs :
          (/\ rq[p].op = "ListLikedYou" /\ rq[p].token = EmptyToken
           /\ rq[p].pc = "done" /\ rq[p].probe # "hit"
           /\ rq[p].storeOut # "query failed") =>
             /\ rq[p].code = "OK"
             /\ KeysetPage(rq[p].resp.likers, rq[p].resp.next,
                           LikedRows(decisions, rq[p].recipient), 20)

(* more than 20 likers, and the request without a token got 20 of them *)
C22_Witness ==
    \E p \in Procs :
       /\ rq[p].op = "ListLikedYou" /\ rq[p].token = EmptyToken
       /\ rq[p].pc = "done" /\ rq[p].code = "OK"
       /\ Cardinality(LikedRows(decisions, rq[p].recipient)) > 20
       /\ Len(rq[p].resp.likers) = 20
       /\ rq[p].resp.next # EmptyToken

(* C23: decoding the encoding of a cursor succeeds and gives the cursor
   back, for the cursors of a range of values and for every next token the
   service hands out. *)
C23_CursorRoundTrip ==
    /\ \A last \in (0 - 1)..(MaxSeconds + 1), limit \in (0 - 1)..(DefaultLimit + 1) :
          DecodeCursor(Encode(Cursor(last, limit))) =
             [err |-> FALSE, cursor |-> Cursor(last, limit)]
    /\ \A p \in Procs :
          rq[p].resp.next # EmptyToken =>
             /\ ~DecodeCursor(rq[p].resp.next).err
             /\ Encode(DecodeCursor(rq[p].resp.next).cursor) = rq[p].resp.next

(* a page was served for a token the service had handed out as the next
   token of the page before *)
C23_Witness ==
    \E p \in Procs :
       /\ rq[p].op = "ListLikedYou"
       /\ rq[p].pc = "done" /\ rq[p].code = "OK"
       /\ rq[p].storeOut = "ok"
       /\ rq[p].token # EmptyToken
       /\ rq[p].token = Encode(DecodeCursor(rq[p].token).cursor)
       /\ DecodeCursor(rq[p].token).cursor.Limit = DefaultLimit
       /\ Len(trav.seen) = DefaultLimit
       /\ Len(rq[p].resp.likers) > 0

(* the identifiers of request r do not pass the validation *)
InvalidFields(r) ==
    IF r.op = "PutDecision"
    THEN r.actor = EmptyId \/ r.recipient = EmptyId \/ r.actor = r.recipient
    ELSE r.recipient = EmptyId

(* C24: a request arriving with invalid identifiers is answered at once with
   invalid-argument and no response: no probe, no storage call, no mutual
   check, no cache write, and the relation and the cache are unchanged; a
   request with valid identifiers is never answered invalid-argument. *)
C24_ValidationShortCircuits ==
    [][\A p \in Procs :
          (rq'[p] # rq[p] /\ rq[p].pc \in {"idle", "done"}) =>
             IF InvalidFields(rq'[p])
             THEN /\ rq'[p].pc = "done"
                  /\ rq'[p].code = "InvalidArgument"
                  /\ ~rq'[p].resp.present
                  /\ rq'[p].probe = "none"
                  /\ rq'[p].storeCalls = 0
                  /\ rq'[p].mutualCalls = 0
                  /\ rq'[p].writes = <<>>
                  /\ decisions' = decisions
                  /\ cache' = cache
                  /\ tasks' = tasks
             ELSE rq'[p].pc \in {"probe", "upsert"}]_vars

(* a decision about oneself was refused while decisions are stored *)
C24_Witness ==
    \E p \in Procs :
       /\ rq[p].op = "PutDecision"
       /\ rq[p].actor = rq[p].recipient
       /\ rq[p].actor # EmptyId
       /\ rq[p].pc = "done"
       /\ rq[p].code = "InvalidArgument"
       /\ decisions # {}

(* the message an operation returns for an internal failure *)
BoundaryMessage(op) ==
    IF op = "ListLikedYou" THEN "failed to get likers"
    ELSE IF op = "ListNewLikedYou" THEN "failed to get new likers"
    ELSE IF op = "CountLikedYou" THEN "failed to count likers"
    ELSE "failed to create decision"

(* C25: an answered request has succeeded or failed with invalid-argument
   or internal, a failure carries no response, and an internal failure
   carries the message of its operation whatever the fault. *)
C25_TwoErrorCategoriesFixedMessage ==
    \A p \in Procs :
       rq[p].pc = "done" =>
          /\ rq[p].code \in {"OK", "InvalidArgument", "Internal"}
          /\ rq[p].code # "OK" => ~rq[p].resp.present
          /\ rq[p].code = "Internal" => rq[p].msg = BoundaryMessage(rq[p].op)

(* two PutDecision calls failed, one at the upsert and one at the mutual
   check, and the caller got the same error *)
C25_Witness ==
    \E p \in Procs, q \in Procs :
       /\ rq[p].op = "PutDecision" /\ rq[q].op = "PutDecision"
       /\ rq[p].pc = "done" /\ rq[q].pc = "done"
       /\ rq[p].storeOut = "upsert failed"
       /\ rq[q].storeOut = "mutual check failed"
       /\ rq[p].code = rq[q].code
       /\ rq[p].msg = rq[q].msg

(* C26: a read whose storage call failed is answered with an internal error
   and no response, after that single storage call and without a cache
   write. *)
C26_StorageFailureAbortsRead ==
    \A p \in Procs :
       (rq[p].op \in ReadOps /\ rq[p].storeOut = "query failed") =>
          /\ rq[p].pc = "done"
          /\ rq[p].code = "Internal"
          /\ ~rq[p].resp.present
          /\ rq[p].storeRes = NoResp
          /\ rq[p].storeCalls = 1
          /\ rq[p].writes = <<>>

(* a count and a listing failed at the storage while the recipient has a liker *)
C26_Witness ==
    /\ \E p \in Procs :
          /\ rq[p].op = "CountLikedYou"
          /\ rq[p].storeOut = "query failed"
          /\ CountLikes(decisions, rq[p].recipient) > 0
    /\ \E p \in Procs :
          /\ rq[p].op = "ListLikedYou"
          /\ rq[p].storeOut = "query failed"
          /\ CountLikes(decisions, rq[p].recipient) > 0

(* C27: a count answered from the storage is the number of rows toward the
   recipient with liked = true at that moment, one per liking actor, and the
   key probed and written is the count key of the recipient, without a token. *)
C27_CountIsNumberOfLikers ==
    [][\A p \in Procs :
          (rq[p].op = "CountLikedYou" /\ rq[p].pc = "fetch" /\ rq'[p].storeOut = "ok") =>
             /\ rq'[p].resp.count = Cardinality(LikedRows(decisions, rq[p].recipient))
             /\ rq'[p].resp.count =
                   Cardinality({ d.actor_user_id : d \in LikedRows(decisions, rq[p].recipient) })
             /\ rq[p].key = [op |-> "likerscount", text |-> UserText(rq[p].recipient)]
             /\ rq'[p].writes[1].key = rq[p].key]_vars

(* a recipient with a liker and a disliker was counted as 1 *)
C27_Witness ==
    \E p \in Procs :
       /\ rq[p].op = "CountLikedYou"
       /\ rq[p].pc = "done"
       /\ rq[p].storeOut = "ok"
       /\ rq[p].resp.count = 1
       /\ \E d \in decisions : d.recipient_user_id = rq[p].recipient /\ ~d.liked_recipient

MalformedToken(token) == token.kind \in {"notbase64", "notjson"}

(* C28: for a malformed token GetLikers and GetNewLikers return the
   invalid-token error with no likers and an empty next token, and a listing
   with such a token never gets a query outcome from the storage. *)
C28_MalformedTokenFailsBeforeQuery ==
    /\ \A token \in { NotBase64Token, NotJsonToken }, recipient \in Users :
          /\ GetLikers(decisions, recipient, token) = { InvalidTokenResult }
          /\ GetNewLikers(decisions, recipient, token) = { InvalidTokenResult }
    /\ InvalidTokenResult.err = "invalid paginationToken"
    /\ InvalidTokenResult.likers = <<>>
    /\ InvalidTokenResult.next = EmptyToken
    /\ \A p \in Procs :
          (/\ rq[p].op \in {"ListLikedYou", "ListNewLikedYou"}
           /\ MalformedToken(rq[p].token)
           /\ rq[p].storeCalls > 0) =>
             /\ rq[p].storeOut = "invalid paginationToken"
             /\ rq[p].storeRes = NoResp
             /\ ~rq[p].resp.present

(* a listing with a malformed token was refused for a recipient who has a liker *)
C28_Witness ==
    \E p \in Procs :
       /\ rq[p].op \in {"ListLikedYou", "ListNewLikedYou"}
       /\ MalformedToken(rq[p].token)
       /\ rq[p].storeOut = "invalid paginationToken"
       /\ CountLikes(decisions, rq[p].recipient) > 0

(* C29: the error CreateDecision returns for a failed mutual check differs
   from the error it returns for a failed upsert. *)
C29_MutualCheckFailureDistinct ==
    \A p \in Procs, q \in Procs :
       (/\ rq[p].op = "PutDecision" /\ rq[q].op = "PutDecision"
        /\ rq[p].storeOut = "upsert failed"
        /\ rq[q].storeOut = "mutual check failed") =>
          /\ rq[p].coreMsg # ""
          /\ rq[q].coreMsg # ""
          /\ rq[p].coreMsg # rq[q].coreMsg

(* one call failed at the upsert and another at the mutual check *)
C29_Witness ==
    \E p \in Procs, q \in Procs :
       /\ rq[p].op = "PutDecision" /\ rq[q].op = "PutDecision"
       /\ rq[p].storeOut = "upsert failed"
       /\ rq[q].storeOut = "mutual check failed"
       /\ rq[p].pc = "done" /\ rq[q].pc = "done"

(* the rows GetLikers matches for request r *)
MatchingRows(r) == RowsBehind(LikedRows(decisions, r.recipient), r.token)

(* the rows that may be the one dropped from the page of request r: the
   newest of the matching rows that are not on the page *)
DroppedRows(r) ==
    LET rest == MatchingRows(r) \ ReturnedRows(r.resp.likers, MatchingRows(r))
    IN { d \in rest : \A e \in rest : e.created_at <= d.created_at }

ServedWithNextToken(r) ==
    /\ r.op = "ListLikedYou"
    /\ r.pc = "done"
    /\ r.storeOut = "ok"
    /\ r.resp.next # EmptyToken

(* C30, as stated: the continuation cursor carries the created_at of the
   row dropped from the page. *)
C30_NextCursorIsDroppedRow ==
    \A p \in Procs :
       ServedWithNextToken(rq[p]) =>
          \E d \in DroppedRows(rq[p]) :
             DecodeCursor(rq[p].resp.next).cursor.LastCreatedAt = EpochSeconds(d.created_at)

(* C30, amended: the row after the limit-th is dropped from the page, and
   the continuation cursor carries the timestamp of the last row kept. *)
C30_NextCursorIsLastKeptRow ==
    \A p \in Procs :
       ServedWithNextToken(rq[p]) =>
          LET page == rq[p].resp.likers
              L == PageSize(DecodeCursor(rq[p].token).cursor)
          IN /\ Len(page) = L
             /\ DroppedRows(rq[p]) # {}
             /\ \A d \in DroppedRows(rq[p]) :
                   \A i \in 1..Len(page) : ~IsItemOf(page[i], d)
             /\ DecodeCursor(rq[p].resp.next).cursor =
                   Cursor(page[L].UnixTimestamp, L)

(* a page was cut and the dropped row is of an earlier second than the last
   row kept *)
C30_Witness ==
    \E p \in Procs :
       /\ ServedWithNextToken(rq[p])
       /\ \E d \in DroppedRows(rq[p]) :
             EpochSeconds(d.created_at) <
                rq[p].resp.likers[Len(rq[p].resp.likers)].UnixTimestamp

(* the requests a cached response can be stale for: the decisions about the
   recipient that it does not show *)
ServedStale(p) ==
    /\ rq[p].pc = "probe"
    /\ rq'[p].probe = "hit"
    /\ rq'[p].resp \notin StoreAnswers(decisions, rq[p])

(* C21: a read served from the cache with a response that does not show a
   committed decision about the recipient is served no later than the TTL of
   its operation after that decision was committed. *)
C21_StalenessBoundedByTTL ==
    [][\A p \in Procs :
          ServedStale(p) =>
             \A d \in decisions :
                d.recipient_user_id = rq[p].recipient =>
                   now - d.created_at <= SpecifiedTTL(rq[p].op) * TicksPerSecond]_vars

(* the item a response lists for liker i of the scenario *)
ScenarioItem(i) == [ActorId |-> Listed + i, UnixTimestamp |-> i * ScenarioStep]

Answered(r, token) ==
    /\ r.op = "ListLikedYou"
    /\ r.token = token
    /\ r.pc = "done"
    /\ r.code = "OK"

(* C31, as stated: with likers at 300, 200 and 100 a request without a
   token is answered with the two newest and a next token for (200, 2). *)
C31_NoTokenPageOfTwo ==
    (decisions = ScenarioLikers(3) /\ Answered(rq[Traveller], EmptyToken)) =>
       /\ rq[Traveller].resp.likers = << ScenarioItem(3), ScenarioItem(2) >>
       /\ rq[Traveller].resp.next = Encode(Cursor(2 * ScenarioStep, 2))

(* C31, amended: with likers at 300, 200 and 100 a request whose token
   carries limit 2 and a position above 300 is answered with the likers at
   300 and 200 and a next token decoding to (200, 2); the request with that
   token is answered with the liker at 100 and no next token. *)
C31_TwoPagesOfThreeLikers ==
    decisions = ScenarioLikers(3) =>
       /\ Answered(rq[Traveller], Encode(Cursor(3 * ScenarioStep + 1, 2))) =>
             /\ rq[Traveller].resp.likers = << ScenarioItem(3), ScenarioItem(2) >>
             /\ rq[Traveller].resp.next # EmptyToken
             /\ DecodeCursor(rq[Traveller].resp.next) =
                   [err |-> FALSE, cursor |-> Cursor(2 * ScenarioStep, 2)]
       /\ Answered(rq[Traveller], Encode(Cursor(2 * ScenarioStep, 2))) =>
             /\ rq[Traveller].resp.likers = << ScenarioItem(1) >>
             /\ rq[Traveller].resp.next = EmptyToken

(* the second page was served from the storage after the first page of two *)
C31_Witness ==
    /\ decisions = ScenarioLikers(3)
    /\ trav.seen = << ScenarioItem(3), ScenarioItem(2) >>
    /\ Answered(rq[Traveller], Encode(Cursor(2 * ScenarioStep, 2)))
    /\ rq[Traveller].storeOut = "ok"
    /\ rq[Traveller].resp.likers = << ScenarioItem(1) >>

(* C32: when the cache provider could not be built at startup, no request
   brings the process down, and every read is answered from the storage: it
   finds no entry, makes its storage call, and succeeds when that call does. *)
C32_MissingCacheIsPermanentMiss ==
    cacheProvider = NilProvider =>
       \A p \in Procs :
          /\ rq[p].pc # "panic"
          /\ (rq[p].op \in ReadOps /\ rq[p].pc = "done" /\ rq[p].recipient # EmptyId) =>
                /\ rq[p].probe = "miss"
                /\ rq[p].storeCalls = 1
                /\ rq[p].storeOut = "ok" => rq[p].code = "OK"

(* what Get returned is the empty string or is not an unsigned decimal *)
InvalidCount(raw) == raw = MissingValue \/ ParseUint(raw).err

(* C33: a count request whose probe found an empty or unparsable value is
   not answered from the cache: it makes its storage call, and when that
   succeeds it returns the count read with success and has launched one
   write of its decimal string under the same key with the count TTL. *)
C33_InvalidCachedCountIsMiss ==
    \A p \in Procs :
       (/\ rq[p].op = "CountLikedYou"
        /\ rq[p].probe # "none"
        /\ InvalidCount(rq[p].raw)) =>
          /\ rq[p].probe # "hit"
          /\ rq[p].pc = "done" =>
                /\ rq[p].storeCalls = 1
                /\ rq[p].storeOut = "ok" =>
                      /\ rq[p].code = "OK"
                      /\ rq[p].resp = rq[p].storeRes
                      /\ rq[p].resp.present
                      /\ rq[p].writes =
                            << [key |-> LikersCountKey(rq[p].recipient),
                                val |-> DecimalValue(rq[p].resp.count),
                                ttl |-> LikersCountTTL, ctx |-> LiveContext] >>

(* the probe found a text that is not a number, the count came from the
   storage, and the entry now holds its decimal string *)
C33_Witness ==
    \E p \in Procs :
       /\ rq[p].op = "CountLikedYou"
       /\ rq[p].raw = NotANumber
       /\ rq[p].pc = "done"
       /\ rq[p].code = "OK"
       /\ rq[p].resp.count = 1
       /\ rq[p].key \in DOMAIN cache
       /\ cache[rq[p].key].val = DecimalValue(1)

(* C34: requests of one listing with different recipient or token have
   different keys, and a listing answered with success names only actors who
   like the recipient it was asked for (decisions are likes and are never
   withdrawn here, so this holds of every page read for that recipient). *)
C34_KeysSeparateRecipients ==
    \A p \in Procs :
       /\ \A q \in Procs :
             (/\ rq[p].op \in {"ListLikedYou", "ListNewLikedYou"}
              /\ rq[q].op = rq[p].op
              /\ rq[p].key # NoKey
              /\ rq[p].key = rq[q].key) =>
                /\ rq[p].recipient = rq[q].recipient
                /\ rq[p].token = rq[q].token
       /\ (/\ rq[p].op \in {"ListLikedYou", "ListNewLikedYou"}
           /\ rq[p].pc = "done"
           /\ rq[p].code = "OK") =>
             \A i \in 1..Len(rq[p].resp.likers) :
                \E d \in LikedRows(decisions, rq[p].recipient) :
                   d.actor_user_id = rq[p].resp.likers[i].ActorId

(* two answered likes of each other, both successful, whose rows both stand *)
CrossedLikes(p, q) ==
    /\ p # q
    /\ rq[p].op = "PutDecision" /\ rq[q].op = "PutDecision"
    /\ rq[p].liked /\ rq[q].liked
    /\ rq[p].actor = rq[q].recipient
    /\ rq[p].recipient = rq[q].actor
    /\ rq[p].pc = "done" /\ rq[q].pc = "done"
    /\ rq[p].code = "OK" /\ rq[q].code = "OK"
    /\ \E d \in PairRows(decisions, rq[p].actor, rq[p].recipient) : d.liked_recipient
    /\ \E d \in PairRows(decisions, rq[q].actor, rq[q].recipient) : d.liked_recipient

(* C35: when a like of B by A and a like of A by B have both succeeded, in
   whatever order their upserts and mutual checks ran, and both likes stand,
   at least one of the two responses reports the mutual like. *)
C35_RaceMissesNoMatch ==
    \A p \in Procs, q \in Procs :
       CrossedLikes(p, q) => rq[p].resp.mutual_likes \/ rq[q].resp.mutual_likes

(* the only two decisions made are the crossed likes and both responses
   report the match: both upserts ran before either mutual check *)
C35_Witness ==
    /\ puts = 2
    /\ \E p \in Procs, q \in Procs :
          /\ CrossedLikes(p, q)
          /\ rq[p].resp.mutual_likes
          /\ rq[q].resp.mutual_likes

(* the values a read of key k of the watched recipient would store now *)
CurrentValues(k) ==
    IF k.op = "likers"
    THEN { JsonValue(ListResp(x.likers, x.next)) : x \in GetLikers(decisions, Watched, EmptyToken) }
    ELSE IF k.op = "newlikers"
    THEN { JsonValue(ListResp(x.likers, x.next)) : x \in GetNewLikers(decisions, Watched, EmptyToken) }
    ELSE { DecimalValue(CountLikes(decisions, Watched)) }

(* C36: the one decision changes what every read of the recipient returns,
   so an entry holding the current answer comes from a read made after it
   and any other value from a read made before it; no step replaces an
   entry that holds the current answer by the answer of an earlier read. *)
C36_NewerSnapshotNotOverwritten ==
    [][\A k \in DOMAIN cache :
          (/\ k \in DOMAIN cache'
           /\ cache'[k].val # cache[k].val
           /\ cache[k].val \in CurrentValues(k)) =>
             cache'[k].val \in CurrentValues(k)]_vars

(* C37: a CreateDecision that ends with an error has not stored its row:
   the error comes from the upsert, which leaves the relation as it was. *)
C37_ErrorLeavesRelationUnchanged ==
    [][\A p \in Procs :
          (/\ rq[p].op = "PutDecision"
           /\ rq[p].pc # "done"
           /\ rq'[p].pc = "done"
           /\ rq'[p].code = "Internal") =>
             /\ ~UpsertSucceeded(rq'[p])
             /\ decisions' = decisions]_vars

(* C38: the pages a walk has collected name no actor twice. *)
C38_WalkNamesNoActorTwice ==
    \A i \in 1..Len(trav.seen), j \in 1..Len(trav.seen) :
       i # j => trav.seen[i].ActorId # trav.seen[j].ActorId

(* C39: a cache write is started only by the step in which a request's
   storage fetch succeeds, after a probe that was not a hit; a read that ends
   on a hit or on a failed fetch has started no write. *)
C39_WriteOnlyAfterSuccessfulFetch ==
    [][/\ BagCardinality(tasks') > BagCardinality(tasks) =>
             \E p \in Procs :
                /\ rq[p].pc = "fetch"
                /\ rq[p].probe # "hit"
                /\ rq'[p].pc = "done"
                /\ rq'[p].storeCalls = rq[p].storeCalls + 1
                /\ rq'[p].storeOut = "ok"
                /\ rq'[p].code = "OK"
                /\ BagCardinality(tasks') = BagCardinality(tasks) + 1
                /\ BagIn([key |-> rq[p].key, val |-> rq'[p].writes[1].val,
                          ttl |-> rq'[p].writes[1].ttl, ctx |-> LiveContext], tasks')
       /\ \A p \in Procs :
             (/\ rq'[p].op \in ReadOps
              /\ rq'[p].pc = "done"
              /\ rq'[p].probe = "hit" \/ rq'[p].code # "OK") =>
                rq'[p].writes = <<>>
       /\ \A p \in Procs :
             (rq[p].pc = "probe" /\ rq'[p].probe = "hit") => cache' = cache]_vars

C39_Witness ==
    \E p \in Procs, q \in Procs :
       /\ rq[p].op \in ReadOps /\ rq[p].pc = "done"
       /\ rq[p].probe = "hit" /\ rq[p].writes = <<>>
       /\ rq[q].op \in ReadOps /\ rq[q].pc = "done"
       /\ rq[q].storeCalls = 1 /\ rq[q].storeOut # "ok"
       /\ rq[q].code = "Internal" /\ rq[q].writes = <<>>
       /\ tasks = EmptyBag

(* C40: once no decision is being created any more, there is a point after
   which every successful ListLikers, ListNewLikers and CountLikers response
   is what the storage holds at that moment. *)
NoDecisionInProgress ==
    \A p \in Procs : rq[p].op = "PutDecision" => rq[p].pc = "done"

AnswersAreCurrent ==
    \A p \in Procs :
       (/\ rq[p].pc # "done"
        /\ rq'[p].pc = "done"
        /\ rq'[p].op \in ReadOps
        /\ rq'[p].code = "OK") =>
          rq'[p].resp \in StoreAnswers(decisions', rq'[p])

C40_ReadsConverge ==
    (<>[]NoDecisionInProgress) => <>[][AnswersAreCurrent]_vars

(* a count answered from the cache with the current value, after another
   request was answered with a count the storage no longer holds *)
C40_Witness ==
    \E p \in Procs, q \in Procs :
       /\ decisions # {}
       /\ rq[q].op = "CountLikedYou" /\ rq[q].pc = "done" /\ rq[q].code = "OK"
       /\ rq[q].resp \notin StoreAnswers(decisions, rq[q])
       /\ rq[p].op = "CountLikedYou" /\ rq[p].pc = "done" /\ rq[p].code = "OK"
       /\ rq[p].probe = "hit"
       /\ rq[p].resp \in StoreAnswers(decisions, rq[p])

====
